---- MODULE Spec2Model ----
(***************************************************************************)
(* A model of the trajectory session of newportxps.NewportXPS: the         *)
(* registry of trajectories, arming, running, reading and saving of the    *)
(* gathering buffer, with the device answering every command with an error *)
(* code of its own choice.                                                 *)
(*                                                                         *)
(* Every method is cut into steps at the places where it talks to the      *)
(* device or assigns traj_state; pc names the next step, stack the steps   *)
(* to return to, loc the local variables of the running call chain.  With *)
(* one caller, while a call runs (pc # "ready") only its own next step is  *)
(* enabled.  The code holds no lock: with two callers (two threads that    *)
(* share the session) the steps of their calls interleave, and waiting     *)
(* holds the call that is not at the processor.                            *)
(***************************************************************************)
EXTENDS Integers, Sequences, FiniteSets, TLC

VARIABLES
    traj_state,        \* self.traj_state
    traj_file,         \* self.traj_file
    nsegments,         \* self.nsegments
    gather_titles,     \* self.gather_titles (NoAttr until arm_trajectory sets it)
    trajectories,      \* self.trajectories: name -> trajectory record
    traj_group,        \* self.traj_group
    traj_positioners,  \* self.traj_positioners
    firmware_version,  \* self.firmware_version
    pc,                \* next step of the running call, "ready" between calls
    stack,             \* steps to return to, innermost first
    loc,               \* local variables of the running call chain
    call,              \* the top-level call that runs or ran last
    outcome,           \* how the last top-level call ended
    sent,              \* commands sent to the controller during `call`
    file,              \* the gathering file on disk
    dev_npoints,       \* controller: number of gathered rows
    hist               \* bookkeeping: the values traj_state took during this
                       \* call (and the arm_trajectory call before it, for a
                       \* run_trajectory that follows one), the commands that
                       \* failed, whether an arming is still unused, which
                       \* command of the call was the first chunk read that
                       \* the controller accepted, the gathering outputs
                       \* that the controller was last configured with
VARIABLES
    waiting            \* the calls of the other callers, each with its pc,
                       \* stack, loc, call and outcome; empty with one caller
VARIABLES
    linear_template    \* self.linear_template (NoAttr until
                       \* set_trajectory_group sets it)
VARIABLES
    conn               \* the connection of the session: self._sid (<<>> for
                       \* None), the names in self.groups and self.stages,
                       \* the system.ini of the controller, and the number
                       \* of connect() calls of the running call
VARIABLES
    xps                \* the driver: the class attributes of XPS (the sockets,
                       \* usedSockets, nbSockets) and of the instance
                       \* self._xps (socketId, errorcodes)

vars == <<traj_state, traj_file, nsegments, gather_titles, trajectories,
          traj_group, traj_positioners, firmware_version, pc, stack, loc,
          call, outcome, sent, file, dev_npoints, hist, waiting, xps,
          linear_template, conn>>

----------------------------------------------------------------------------
(* Values *)

IDLE     == "IDLE"
ARMING   == "ARMING"
ARMED    == "ARMED"
RUNNING  == "RUNNING"
COMPLETE == "COMPLETE"
WRITING  == "WRITING"
READING  == "READING"

TrajStates == {IDLE, ARMING, ARMED, RUNNING, COMPLETE, WRITING, READING}

None   == "None"   \* None where the other values are strings
NoAttr == <<>>     \* None, or an attribute not set yet, where the other values are sequences

\* Model bounds
MaxCount   == 1    \* most rows the controller gathers in one run
MaxPolls   == 2    \* count queries that fit into the 5 s poll window
MaxEventId == 1    \* largest event identifier the controller hands out
MaxFaults  == 2    \* most commands the controller fails during one call
MaxRows    == 13   \* most rows the controller holds when only the reader runs
MaxReadFaults == 5 \* most commands the controller fails during one read

\* error code that Send returns for a socket timeout or socket error
SocketError == -2

DevErrs == {0, SocketError}

\* NewportXPS.gather_header, one entry per line of the text
gather_header  == <<"# XPS Gathering Data", "#--------------">>
gather_outputs == <<"CurrentPosition", "SetpointPosition">>

\* system.ini as read by read_systemini: groups and stages
groups == [FINE   |-> [category |-> "MultipleAxesInUse", positioners |-> <<"X", "Y">>],
           COARSE |-> [category |-> "MultipleAxesInUse", positioners |-> <<"U", "V">>],
           DET    |-> [category |-> "SingleAxisInUse",   positioners |-> <<"Z">>]]

GroupNames == {"FINE", "COARSE", "DET"}

stages == {<<"FINE", "X">>, <<"FINE", "Y">>, <<"COARSE", "U">>,
           <<"COARSE", "V">>, <<"DET", "Z">>}

\* the system.ini that holds all of them: the group names of [GROUPS] and
\* the stage sections
FullIni == [groups |-> GroupNames, stages |-> stages]

\* the connection of a session that connect() has connected on socket 0
ConnectedConn == [sid |-> <<0>>, groups |-> GroupNames, stages |-> stages,
                  ini |-> FullIni, connects |-> 0]

\* one line of the template of a line trajectory file: the time, then two
\* fields per positioner, the second one the constant '%8.6f' % 0.0 when b
\* is ""
TemplateLine(time, a, b, positioners) ==
    <<<<"", time>>>> \o
    [k \in 1..(2 * Len(positioners)) |->
        IF k % 2 = 1 THEN <<positioners[(k + 1) \div 2], a>>
        ELSE IF b = "" THEN <<"0.000000">>
        ELSE <<positioners[k \div 2], b>>]

\* self.linear_template as set_trajectory_group builds it: trajline1,
\* trajline2 and trajline3, each a list of fields
LinearTemplate(positioners) ==
    <<TemplateLine("ramptime", "ramp", "velo", positioners),
      TemplateLine("scantime", "dist", "velo", positioners),
      TemplateLine("ramptime", "ramp", "", positioners)>>

----------------------------------------------------------------------------
(* Text: a text is a sequence of one-character strings, rows end in "\n" *)

RECURSIVE Join(_, _)
\* sep.join(items) for a sequence of items
Join(items, sep) ==
    IF Len(items) = 0 THEN <<>>
    ELSE IF Len(items) = 1 THEN <<items[1]>>
    ELSE <<items[1], sep>> \o Join(Tail(items), sep)

\* one row of the gathering buffer as the controller sends it
Row(k) == <<ToString(k), ";", ToString(k), "\n">>

RECURSIVE DevRows(_, _)
\* the answer of GatheringDataMultipleLinesGet(index, n): rows index .. index+n-1
DevRows(index, n) ==
    IF n <= 0 THEN <<>> ELSE Row(index) \o DevRows(index + 1, n - 1)

\* the text the controller sends with an error code
ErrText == <<"E">>

\* a replacement that takes line feeds as well
CleanBuffer_lineFeeds(buff) ==
    [i \in 1..Len(buff) |->
        IF buff[i] \in {";", "\r", "\t", "\n"} THEN " " ELSE buff[i]]

\* buff.replace(x, ' ') for x in ';\r\t'
CleanBuffer(buff) ==
    [i \in 1..Len(buff) |-> IF buff[i] \in {";", "\r", "\t"} THEN " " ELSE buff[i]]

\* a division that rounds down
IntDiv_floor(x, y) == x \div y

\* int(x / y) for y > 0: Python truncates toward zero
IntDiv(x, y) == IF x >= 0 THEN x \div y ELSE -((-x) \div y)

----------------------------------------------------------------------------
(* Driver: XPSOutputs.parse and the error check *)

\* XPSOutputs.parse(error, response) for one int output: [error, response]
\* when the controller reports an error, [error, int(response)] otherwise
XPSOutputs_parse(error, response, value) ==
    IF error # 0 THEN <<error, response>> ELSE <<error, value>>

\* check_error raises exactly for a nonzero code with with_raise set
\* a check_error that raises whatever with_raise says
check_error_strict(err, with_raise) == err # 0

check_error(err, with_raise) == err # 0 /\ with_raise

\* MAX_NB_SOCKETS, here the number of socket ids of the model
MaxSockets == 2

SocketIds == 0..(MaxSockets - 1)

\* the controller's answer to ErrorListGet, split at ';': each line is a
\* sequence of words, the last line is the empty text after the final ';'
ErrorList ==
    << <<"Error", " ", "0", ":", " ", "Successful command">>,
       <<"Error", " ", "-2", ":", " ", "TCP timeout">>,
       <<"Error", " ", "-17", ":", " ", "Parameter out of range", ":", " ", "check">>,
       <<>> >>

RECURSIVE Strip(_)
\* str.strip on a sequence of words: the blanks at both ends go
Strip(words) ==
    IF words = <<>> THEN <<>>
    ELSE IF Head(words) = " " THEN Strip(Tail(words))
    ELSE IF words[Len(words)] = " " THEN Strip(SubSeq(words, 1, Len(words) - 1))
    ELSE words

\* str.replace('Error', '')
WithoutError(words) == SelectSeq(words, LAMBDA w : w # "Error")

\* the index of the first ':' of a line, 0 when it has none
Colon(cline) ==
    IF \E k \in 1..Len(cline) : cline[k] = ":"
    THEN CHOOSE k \in 1..Len(cline) :
            cline[k] = ":" /\ \A j \in 1..(k - 1) : cline[j] # ":"
    ELSE 0

RECURSIVE ErrorCodes(_)
\* the loop that fills self.errorcodes from the lines of the answer: a line
\* without ':' is skipped, a later line replaces an earlier one of its code
ErrorCodes(clines) ==
    IF clines = <<>> THEN <<>>
    ELSE LET cline == clines[Len(clines)]
             k     == Colon(cline)
             front == ErrorCodes(SubSeq(clines, 1, Len(clines) - 1))
         IN  IF k = 0 THEN front
             ELSE (Strip(WithoutError(SubSeq(cline, 1, k - 1)))
                      :> Strip(SubSeq(cline, k + 1, Len(cline)))) @@ front

\* a lookup with the code as the list spells it
ErrorKey_asListed(err) == <<"Error", " ", ToString(err)>>

\* err = f"{err}": the key that check_error looks up
ErrorKey(err) == <<ToString(err)>>

\* self._xps.errorcodes.get(err, 'unknown error')
ErrorDescription(err) ==
    IF ErrorKey(err) \in DOMAIN xps.errorcodes
    THEN xps.errorcodes[ErrorKey(err)] ELSE <<"unknown error">>

\* the driver before any connection: XPS.__init__ and the class attributes;
\* socketId is <<>> while the instance has no such attribute, <<id>> after
NewXPS == [sockets     |-> [s \in SocketIds |-> "none"],
           usedSockets |-> [s \in SocketIds |-> 0],
           nbSockets   |-> 0,
           socketId    |-> <<>>,
           errorcodes  |-> <<>>]

\* the driver of a session that connect() has connected on socket 0
ConnectedXPS ==
    [NewXPS EXCEPT !.sockets[0] = "open", !.usedSockets[0] = 1,
                   !.nbSockets = 1, !.socketId = <<0>>,
                   !.errorcodes = ErrorCodes(ErrorList)]

----------------------------------------------------------------------------
(* Calls, returns and exceptions *)

InitLoc == [name |-> None, save |-> FALSE, move_to_start |-> FALSE,
            set_idle_when_done |-> FALSE, clean |-> FALSE, i |-> 0,
            npulses |-> -1, polls |-> 0, nchunks |-> -1, nx |-> 0,
            buff |-> <<>>, eventID |-> 0, m |-> 0, outputs |-> <<>>,
            retval |-> <<>>, upload |-> FALSE, reenable |-> FALSE]

Pending == [kind |-> "pending", exc |-> "", val |-> <<>>]

\* a log entry for a command sent to the controller
Cmd(name, args) == [cmd |-> name, args |-> args]

\* the running method returns val; l are its locals at that point (the locals
\* of a finished top-level call are gone)
Return(val, l) ==
    IF stack = <<>>
    THEN /\ pc' = "ready"
         /\ stack' = <<>>
         /\ outcome' = [kind |-> "returned", exc |-> "", val |-> val]
         /\ loc' = InitLoc
    ELSE /\ pc' = Head(stack)
         /\ stack' = Tail(stack)
         /\ outcome' = outcome
         /\ loc' = [l EXCEPT !.retval = val]

\* the running method raises exc: no caller in this model catches it
Raise(exc) ==
    /\ pc' = "ready"
    /\ stack' = <<>>
    /\ outcome' = [kind |-> "raised", exc |-> exc, val |-> <<>>]
    /\ loc' = InitLoc

\* a top-level call starts
Enter(op, label, l) ==
    /\ pc = "ready"
    /\ pc' = label
    /\ stack' = <<>>
    /\ loc' = l
    /\ call' = [op |-> op, name |-> l.name, save |-> l.save,
                move_to_start |-> l.move_to_start,
                set_idle_when_done |-> l.set_idle_when_done,
                from |-> traj_state]
    /\ outcome' = Pending
    /\ sent' = <<>>

\* hist after traj_state is assigned the value s
Logged(h, s) ==
    IF h.log[Len(h.log)] = s THEN h ELSE [h EXCEPT !.log = Append(h.log, s)]

\* hist after a device call answered err
Answered(h, err) ==
    IF err = 0 THEN h ELSE [h EXCEPT !.ok = FALSE, !.faults = h.faults + 1]

\* the error codes the controller may answer the next command with
DevAnswers == IF hist.faults < hist.budget THEN DevErrs ELSE {0}

\* hist when a top-level call starts
NewHist(phase) == [phase |-> phase, ok |-> TRUE, log |-> <<traj_state>>,
                   faults |-> 0, budget |-> hist.budget, armed |-> hist.armed,
                   first |-> 0, conf |-> hist.conf]
NoHist == NewHist("other")

config  == <<traj_group, traj_positioners, firmware_version, linear_template,
             conn>>
session == <<traj_state, traj_file, nsegments, gather_titles>>

----------------------------------------------------------------------------
(* arm_trajectory(name, move_to_start), with move_to_trajectory_start and  *)
(* move_stage                                                              *)

\* an arm_trajectory without its check of the uploaded flag
NotArmable_unregistered(name) == name \notin DOMAIN trajectories

\* the two checks that make arm_trajectory raise before it does anything
NotArmable(name) ==
    \/ name \notin DOMAIN trajectories
    \/ ~trajectories[name].uploaded

\* the gathering outputs: for out in gather_outputs: for ax in traj['axes']
GatherOutputs(axes) ==
    [k \in 1..(Len(gather_outputs) * Len(axes)) |->
        <<traj_group, axes[((k - 1) % Len(axes)) + 1],
          gather_outputs[((k - 1) \div Len(axes)) + 1]>>]

\* titles of two lines: the first line of gather_header and the names
GatherTitles_twoLines(outputs) ==
    <<<<gather_header[1]>>, <<"#">> \o Join(outputs, " ")>>

\* f"{self.gather_header}\n#{o}\n", one entry per line, a line being a
\* sequence of words
GatherTitles(outputs) ==
    <<<<gather_header[1]>>, <<gather_header[2]>>, <<"#">> \o Join(outputs, " ")>>

arm_trajectory(name, move_to_start) ==
    /\ Enter("arm_trajectory", "arm_check",
             [InitLoc EXCEPT !.name = name, !.move_to_start = move_to_start])
    /\ hist' = NewHist("arm")
    /\ UNCHANGED <<session, trajectories, config, waiting, xps, file, dev_npoints>>

\* the lookup of the trajectory, the uploaded check, ARMING and traj_file
arm_trajectory_check ==
    /\ pc = "arm_check"
    /\ IF NotArmable(loc.name)
       THEN /\ Raise("XPSException")
            /\ UNCHANGED <<traj_state, traj_file, hist>>
       ELSE /\ traj_state' = ARMING
            /\ traj_file' = <<loc.name, "trj">>
            /\ hist' = Logged(hist, ARMING)
            /\ pc' = IF loc.move_to_start THEN "arm_move" ELSE "arm_reset"
            /\ loc' = [loc EXCEPT !.i = 1]
            /\ UNCHANGED <<stack, outcome>>
    /\ UNCHANGED <<nsegments, gather_titles, call, sent, trajectories, config, waiting, xps,
                   file, dev_npoints>>

\* move_to_trajectory_start: one move_stage per axis with a start position
arm_trajectory_move ==
    /\ pc = "arm_move"
    /\ LET traj  == trajectories[loc.name]
           i     == loc.i
           stage == <<traj_group, traj.axes[i]>>
       IN  IF traj_group = None
           THEN /\ Raise("XPSException")
                /\ UNCHANGED <<sent, hist>>
           ELSE IF i > Len(traj.start)
           THEN /\ pc' = "arm_reset"
                /\ UNCHANGED <<stack, outcome, loc, sent, hist>>
           ELSE IF traj.type = "array" /\ traj.start[i] = NoAttr
           THEN /\ loc' = [loc EXCEPT !.i = i + 1]
                /\ UNCHANGED <<pc, stack, outcome, sent, hist>>
           ELSE IF stage \notin stages
           THEN /\ Raise("XPSException")
                /\ UNCHANGED <<sent, hist>>
           ELSE \E err \in DevAnswers :
                /\ sent' = Append(sent, Cmd("GroupMoveAbsolute",
                                            <<stage, traj.start[i][1]>>))
                /\ hist' = Answered(hist, err)
                /\ IF check_error(err, TRUE)
                   THEN Raise("XPSException")
                   ELSE /\ loc' = [loc EXCEPT !.i = i + 1]
                        /\ UNCHANGED <<pc, stack, outcome>>
    /\ UNCHANGED <<session, call, trajectories, config, waiting, xps, file, dev_npoints>>

\* the outputs, nsegments, gather_titles and GatheringReset
arm_trajectory_reset ==
    /\ pc = "arm_reset"
    /\ LET traj    == trajectories[loc.name]
           outputs == GatherOutputs(traj.axes)
       IN  /\ nsegments' = traj.nsegments
           /\ gather_titles' = GatherTitles(outputs)
           /\ sent' = Append(sent, Cmd("GatheringReset", <<>>))
           /\ \E err \in DevAnswers :
                /\ hist' = Answered(hist, err)
                /\ dev_npoints' = IF err = 0 THEN 0 ELSE dev_npoints
                /\ IF check_error(err, TRUE)
                   THEN Raise("XPSException")
                   ELSE /\ pc' = "arm_configure"
                        /\ loc' = [loc EXCEPT !.outputs = outputs]
                        /\ UNCHANGED <<stack, outcome>>
    /\ UNCHANGED <<traj_state, traj_file, call, trajectories, config, waiting, xps, file>>

arm_trajectory_configure ==
    /\ pc = "arm_configure"
    /\ sent' = Append(sent, Cmd("GatheringConfigurationSet", loc.outputs))
    /\ \E err \in DevAnswers :
         /\ hist' = IF err = 0
                    THEN [Answered(hist, err) EXCEPT !.conf = loc.outputs]
                    ELSE Answered(hist, err)
         /\ IF check_error(err, TRUE)
            THEN Raise("XPSException")
            ELSE /\ pc' = "arm_pulse"
                 /\ UNCHANGED <<stack, outcome, loc>>
    /\ UNCHANGED <<session, call, trajectories, config, waiting, xps, file, dev_npoints>>

\* a pulse window that opens with the first segment
PulseWindow_fromFirst(traj) == <<1, traj.nsegments>>

\* the segments between which pulses are output: 2, end_segment
PulseWindow(traj) == <<2, traj.nsegments>>

arm_trajectory_pulse ==
    /\ pc = "arm_pulse"
    /\ sent' = Append(sent, Cmd("MultipleAxesPVTPulseOutputSet",
                  <<traj_group>> \o PulseWindow(trajectories[loc.name]) \o
                  <<trajectories[loc.name].pixeltime>>))
    /\ \E err \in DevAnswers :
         /\ hist' = Answered(hist, err)
         /\ IF check_error(err, FALSE)
            THEN Raise("XPSException")
            ELSE /\ pc' = "arm_verify"
                 /\ UNCHANGED <<stack, outcome, loc>>
    /\ UNCHANGED <<session, call, trajectories, config, waiting, xps, file, dev_npoints>>

\* MultipleAxesPVTVerification and traj_state = ARMED
arm_trajectory_verify ==
    /\ pc = "arm_verify"
    /\ sent' = Append(sent, Cmd("MultipleAxesPVTVerification",
                                <<traj_group, traj_file>>))
    /\ \E err \in DevAnswers :
         /\ IF check_error(err, FALSE)
            THEN /\ Raise("XPSException")
                 /\ hist' = Answered(hist, err)
                 /\ UNCHANGED traj_state
            ELSE /\ traj_state' = ARMED
                 /\ hist' = [Logged(Answered(hist, err), ARMED)
                                EXCEPT !.armed = "fresh"]
                 /\ Return(<<>>, loc)
    /\ UNCHANGED <<traj_file, nsegments, gather_titles, call, trajectories,
                   config, waiting, xps, file, dev_npoints>>

----------------------------------------------------------------------------
(* run_trajectory(name, save, clean)                                       *)

\* a run_trajectory that arms every registered name, armed session or not
ArmsFirst_whenever(name) == name \in DOMAIN trajectories

\* run_trajectory arms the named trajectory itself when the name is
\* registered and the session is not ARMED
ArmsFirst(name) == name \in DOMAIN trajectories /\ traj_state # ARMED

\* a run_trajectory without its check of the ARMED state
NotArmed_unchecked == FALSE

\* the check that makes run_trajectory raise "Must arm trajectory before running!"
NotArmed == traj_state # ARMED

\* the identifier run_trajectory passes to EventExtendedRemove: the first of
\* the two values it unpacks from EventExtendedStart
RemovedEvent(parsed) == parsed[1]

run_trajectory(name, save, clean) ==
    /\ Enter("run_trajectory", "run_begin",
             [InitLoc EXCEPT !.name = name, !.save = save, !.clean = clean])
    /\ hist' = IF hist.phase = "arm" /\ outcome.kind = "returned"
               THEN [hist EXCEPT !.phase = "run", !.faults = 0] ELSE NoHist
    /\ UNCHANGED <<session, trajectories, config, waiting, xps, file, dev_npoints>>

\* the clean-up commands of an XPS-D and the arming of a named trajectory
run_trajectory_begin ==
    /\ pc = "run_begin"
    /\ sent' = IF firmware_version = "XPS-D"
               THEN sent \o <<Cmd("CleanTmpFolder", <<>>)>>
                         \o (IF loc.clean THEN <<Cmd("CleanCoreDumpFolder", <<>>)>>
                                          ELSE <<>>)
               ELSE sent
    /\ IF ArmsFirst(loc.name)
       THEN /\ pc' = "arm_check"
            /\ stack' = <<"run_check">> \o stack
            /\ loc' = [loc EXCEPT !.move_to_start = TRUE]
       ELSE /\ pc' = "run_check"
            /\ UNCHANGED <<stack, loc>>
    /\ UNCHANGED <<session, call, outcome, trajectories, config, waiting, xps, file,
                   dev_npoints, hist>>

\* the ARMED check and EventExtendedConfigurationTriggerSet
run_trajectory_check ==
    /\ pc = "run_check"
    /\ IF NotArmed
       THEN /\ Raise("XPSException")
            /\ UNCHANGED <<sent, hist>>
       ELSE /\ sent' = Append(sent, Cmd("EventExtendedConfigurationTriggerSet",
                              <<"Always", <<traj_group, "PVT.TrajectoryPulse">>>>))
            /\ \E err \in DevAnswers :
                 /\ hist' = Answered(hist, err)
                 /\ IF check_error(err, TRUE)
                    THEN Raise("XPSException")
                    ELSE /\ pc' = "run_action"
                         /\ UNCHANGED <<stack, outcome, loc>>
    /\ UNCHANGED <<session, call, trajectories, config, waiting, xps, file, dev_npoints>>

run_trajectory_action ==
    /\ pc = "run_action"
    /\ sent' = Append(sent, Cmd("EventExtendedConfigurationActionSet",
                                <<"GatheringOneData">>))
    /\ \E err \in DevAnswers :
         /\ hist' = Answered(hist, err)
         /\ IF check_error(err, TRUE)
            THEN Raise("XPSException")
            ELSE /\ pc' = "run_start"
                 /\ UNCHANGED <<stack, outcome, loc>>
    /\ UNCHANGED <<session, call, trajectories, config, waiting, xps, file, dev_npoints>>

\* eventID, m = EventExtendedStart(); traj_state = RUNNING
run_trajectory_start ==
    /\ pc = "run_start"
    /\ sent' = Append(sent, Cmd("EventExtendedStart", <<>>))
    /\ \E err \in DevAnswers, id \in 0..MaxEventId :
         LET parsed == XPSOutputs_parse(err, ErrText, id)
         IN  /\ loc' = [loc EXCEPT !.eventID = RemovedEvent(parsed), !.m = parsed[2]]
             /\ hist' = Logged(Answered(hist, err), RUNNING)
    /\ traj_state' = RUNNING
    /\ pc' = "run_exec"
    /\ UNCHANGED <<traj_file, nsegments, gather_titles, stack, outcome, call,
                   trajectories, config, waiting, xps, file, dev_npoints>>

\* MultipleAxesPVTExecution blocks until the trajectory is done; every pulse
\* of it gathers one row
run_trajectory_exec ==
    /\ pc = "run_exec"
    /\ sent' = Append(sent, Cmd("MultipleAxesPVTExecution",
                                <<traj_group, traj_file, 1>>))
    /\ \E err \in DevAnswers, n \in 0..MaxCount :
         /\ hist' = [Answered(hist, err) EXCEPT !.armed = "spent"]
         /\ dev_npoints' = n
         /\ IF check_error(err, FALSE)
            THEN Raise("XPSException")
            ELSE /\ pc' = "run_remove"
                 /\ UNCHANGED <<stack, outcome, loc>>
    /\ UNCHANGED <<session, call, trajectories, config, waiting, xps, file>>

\* EventExtendedRemove(eventID), GatheringStop and traj_state = COMPLETE
run_trajectory_remove ==
    /\ pc = "run_remove"
    /\ sent' = sent \o <<Cmd("EventExtendedRemove", <<loc.eventID>>),
                         Cmd("GatheringStop", <<>>)>>
    /\ traj_state' = COMPLETE
    /\ hist' = Logged(hist, COMPLETE)
    /\ pc' = "run_save"
    /\ UNCHANGED <<traj_file, nsegments, gather_titles, stack, outcome, loc,
                   call, trajectories, config, waiting, xps, file, dev_npoints>>

\* if save: self.read_and_save(output_file)
run_trajectory_save ==
    /\ pc = "run_save"
    /\ IF loc.save
       THEN /\ pc' = "ras_begin"
            /\ stack' = <<"run_idle">> \o stack
       ELSE /\ pc' = "run_idle"
            /\ UNCHANGED stack
    /\ UNCHANGED <<session, loc, call, outcome, sent, trajectories, config, waiting, xps,
                   file, dev_npoints, hist>>

\* a run_trajectory that leaves the session armed
StateAfterRun_armed == ARMED

\* the state run_trajectory leaves the session in
StateAfterRun == IDLE

\* traj_state = IDLE; return npulses
run_trajectory_idle ==
    /\ pc = "run_idle"
    /\ traj_state' = StateAfterRun
    /\ hist' = Logged(hist, StateAfterRun)
    /\ Return(<<0>>, loc)
    /\ UNCHANGED <<traj_file, nsegments, gather_titles, call, sent,
                   trajectories, config, waiting, xps, file, dev_npoints>>

----------------------------------------------------------------------------
(* read_and_save, read_gathering, save_gathering_file                      *)

read_and_save ==
    /\ Enter("read_and_save", "ras_begin", InitLoc)
    /\ hist' = NoHist
    /\ UNCHANGED <<session, trajectories, config, waiting, xps, file, dev_npoints>>

\* npulses, buff = self.read_gathering(set_idle_when_done=False)
read_and_save_begin ==
    /\ pc = "ras_begin"
    /\ pc' = "rg_begin"
    /\ stack' = <<"ras_after">> \o stack
    /\ loc' = [loc EXCEPT !.set_idle_when_done = FALSE]
    /\ UNCHANGED <<session, call, outcome, sent, trajectories, config, waiting, xps, file,
                   dev_npoints, hist>>

\* a read_and_save that only skips the file for a negative number of rows
NothingToSave_negative(npulses) == npulses < 0

\* read_and_save writes no file for this number of rows
NothingToSave(npulses) == npulses < 1

\* if npulses < 1: return; else save_gathering_file(..., set_idle_when_done=False)
read_and_save_after ==
    /\ pc = "ras_after"
    /\ IF NothingToSave(loc.retval[1])
       THEN Return(<<>>, loc)
       ELSE /\ pc' = "sg_write"
            /\ stack' = <<"ras_end">> \o stack
            /\ loc' = [loc EXCEPT !.buff = loc.retval[2],
                                  !.set_idle_when_done = FALSE]
            /\ UNCHANGED outcome
    /\ UNCHANGED <<session, call, sent, trajectories, config, waiting, xps, file,
                   dev_npoints, hist>>

read_and_save_end ==
    /\ pc = "ras_end"
    /\ Return(<<>>, loc)
    /\ UNCHANGED <<session, call, sent, trajectories, config, waiting, xps, file,
                   dev_npoints, hist>>

read_gathering(set_idle_when_done) ==
    /\ Enter("read_gathering", "rg_begin",
             [InitLoc EXCEPT !.set_idle_when_done = set_idle_when_done])
    /\ hist' = NoHist
    /\ UNCHANGED <<session, trajectories, config, waiting, xps, file, dev_npoints>>

\* traj_state = READING; npulses = -1; t0 = time.time()
read_gathering_begin ==
    /\ pc = "rg_begin"
    /\ traj_state' = READING
    /\ hist' = Logged(hist, READING)
    /\ pc' = "rg_poll"
    /\ loc' = [loc EXCEPT !.npulses = -1, !.polls = 0]
    /\ UNCHANGED <<traj_file, nsegments, gather_titles, stack, outcome, call,
                   sent, trajectories, config, waiting, xps, file, dev_npoints>>

\* a timeout result without text
PollTimeoutResult_empty == <<0, <<>>>>

\* what read_gathering returns when the 5 s of the count poll are over
PollTimeoutResult == <<0, <<" ", "\n">>>>

\* the end of read_gathering: clean the buffer, IDLE if asked, return
read_gathering_finish(npulses, buff, h) ==
    /\ traj_state' = IF loc.set_idle_when_done THEN IDLE ELSE traj_state
    /\ hist' = IF loc.set_idle_when_done THEN Logged(h, IDLE) ELSE h
    /\ Return(<<npulses, CleanBuffer(buff)>>, loc)

\* one pass of the loop `while npulses < 1`: the count query, the check of the
\* 5 s window, the sleep.  elapsed says whether the 5 s were over at the check.
read_gathering_poll ==
    /\ pc = "rg_poll"
    /\ sent' = Append(sent, Cmd("GatheringCurrentNumberGet", <<>>))
    /\ \E err \in DevAnswers, elapsed \in BOOLEAN :
         /\ loc.polls + 1 >= MaxPolls => elapsed
         /\ hist' = Answered(hist, err)
         /\ IF err # 0
            THEN \* parse returns [error, response]: unpacking it into the
                 \* three names ret, npulses, nx raises ValueError
                 Raise("ValueError")
            ELSE IF elapsed
            THEN Return(PollTimeoutResult, loc)
            ELSE /\ pc' = IF dev_npoints < 1 THEN "rg_poll" ELSE "rg_bulk"
                 /\ loc' = [loc EXCEPT !.npulses = dev_npoints,
                                       !.polls = loc.polls + 1]
                 /\ UNCHANGED <<stack, outcome>>
    /\ UNCHANGED <<session, call, trajectories, config, waiting, xps, file, dev_npoints>>

\* a chunk loop that runs once more than range(1, nchunks)
AfterChunk_inclusive(i, nchunks) == IF i <= nchunks THEN "rg_chunks" ELSE "rg_last"

\* the step after a chunk read: more chunks, or the last, shorter read
AfterChunk(i, nchunks) == IF i < nchunks THEN "rg_chunks" ELSE "rg_last"

\* ret, buff = GatheringDataMultipleLinesGet(0, npulses); ret < 0 starts the
\* read in chunks
read_gathering_bulk ==
    /\ pc = "rg_bulk"
    /\ sent' = Append(sent, Cmd("GatheringDataMultipleLinesGet", <<0, loc.npulses>>))
    /\ \E err \in DevAnswers :
         IF err < 0
         THEN /\ pc' = "rg_first"
              /\ loc' = [loc EXCEPT !.nchunks = 3,
                                    !.nx = IntDiv(loc.npulses - 2, 3)]
              /\ hist' = Answered(hist, err)
              /\ UNCHANGED <<traj_state, stack, outcome>>
         ELSE read_gathering_finish(loc.npulses,
                  IF err = 0 THEN DevRows(0, loc.npulses) ELSE ErrText,
                  Answered(hist, err))
    /\ UNCHANGED <<traj_file, nsegments, gather_titles, call, trajectories,
                   config, waiting, xps, file, dev_npoints>>

\* one pass of the loop that looks for a chunk size the controller accepts
read_gathering_first ==
    /\ pc = "rg_first"
    /\ sent' = Append(sent, Cmd("GatheringDataMultipleLinesGet", <<0, loc.nx>>))
    /\ \E err \in DevAnswers :
         LET nchunks == loc.nchunks + 2
         IN  /\ hist' = IF err = 0
                        THEN [Answered(hist, err) EXCEPT !.first = Len(sent')]
                        ELSE Answered(hist, err)
             /\ IF err = 0
                THEN /\ pc' = AfterChunk(1, loc.nchunks)
                     /\ loc' = [loc EXCEPT !.buff = DevRows(0, loc.nx), !.i = 1]
                ELSE IF nchunks > 10
                THEN /\ pc' = AfterChunk(1, nchunks)
                     /\ loc' = [loc EXCEPT !.nchunks = nchunks,
                                           !.nx = IntDiv(loc.npulses - 2, nchunks),
                                           !.buff = ErrText, !.i = 1]
                ELSE /\ pc' = "rg_first"
                     /\ loc' = [loc EXCEPT !.nchunks = nchunks,
                                           !.nx = IntDiv(loc.npulses - 2, nchunks)]
    /\ UNCHANGED <<session, stack, outcome, call, trajectories, config, waiting, xps, file,
                   dev_npoints>>

\* one pass of `for i in range(1, nchunks)`
read_gathering_chunks ==
    /\ pc = "rg_chunks"
    /\ sent' = Append(sent, Cmd("GatheringDataMultipleLinesGet",
                                <<loc.i * loc.nx, loc.nx>>))
    /\ \E err \in DevAnswers :
         /\ hist' = Answered(hist, err)
         /\ pc' = AfterChunk(loc.i + 1, loc.nchunks)
         /\ loc' = [loc EXCEPT !.i = loc.i + 1,
                       !.buff = loc.buff \o (IF err = 0
                                             THEN DevRows(loc.i * loc.nx, loc.nx)
                                             ELSE ErrText)]
    /\ UNCHANGED <<session, stack, outcome, call, trajectories, config, waiting, xps, file,
                   dev_npoints>>

\* the read of the rows after the last whole chunk, and the end of read_gathering
read_gathering_last ==
    /\ pc = "rg_last"
    /\ LET index == loc.nchunks * loc.nx
           n     == loc.npulses - loc.nchunks * loc.nx
       IN  /\ sent' = Append(sent, Cmd("GatheringDataMultipleLinesGet", <<index, n>>))
           /\ \E err \in DevAnswers :
                read_gathering_finish(loc.npulses,
                    loc.buff \o (IF err = 0 THEN DevRows(index, n) ELSE ErrText),
                    Answered(hist, err))
    /\ UNCHANGED <<traj_file, nsegments, gather_titles, call, trajectories,
                   config, waiting, xps, file, dev_npoints>>

save_gathering_file(buff, set_idle_when_done) ==
    /\ Enter("save_gathering_file", "sg_write",
             [InitLoc EXCEPT !.buff = buff,
                             !.set_idle_when_done = set_idle_when_done])
    /\ hist' = NoHist
    /\ UNCHANGED <<session, trajectories, config, waiting, xps, file, dev_npoints>>

\* traj_state = WRITING; open(fname, 'w'); write gather_titles, write buff
save_gathering_file_write ==
    /\ pc = "sg_write"
    /\ traj_state' = WRITING
    /\ hist' = Logged(hist, WRITING)
    /\ IF gather_titles = NoAttr
       THEN /\ file' = <<>>
            /\ Raise("AttributeError")
       ELSE /\ file' = <<gather_titles, loc.buff>>
            /\ pc' = "sg_done"
            /\ UNCHANGED <<stack, outcome, loc>>
    /\ UNCHANGED <<traj_file, nsegments, gather_titles, call, sent,
                   trajectories, config, waiting, xps, dev_npoints>>

save_gathering_file_done ==
    /\ pc = "sg_done"
    /\ traj_state' = IF loc.set_idle_when_done THEN IDLE ELSE traj_state
    /\ hist' = IF loc.set_idle_when_done THEN Logged(hist, IDLE) ELSE hist
    /\ Return(<<>>, loc)
    /\ UNCHANGED <<traj_file, nsegments, gather_titles, call, sent,
                   trajectories, config, waiting, xps, file, dev_npoints>>

----------------------------------------------------------------------------
(* Numbers of the trajectory planner: a number is a fraction <<n, d>> in   *)
(* lowest terms with d > 0; the arithmetic is exact                        *)

Abs(x) == IF x < 0 THEN -x ELSE x

RECURSIVE GCD(_, _)
GCD(a, b) == IF b = 0 THEN a ELSE GCD(b, a % b)

Frac(n, d) ==
    LET g == GCD(Abs(n), Abs(d))
        s == IF d < 0 THEN -1 ELSE 1
    IN  <<(s * n) \div g, (s * d) \div g>>

FAdd(a, b)  == Frac(a[1] * b[2] + b[1] * a[2], a[2] * b[2])
FSub(a, b)  == Frac(a[1] * b[2] - b[1] * a[2], a[2] * b[2])
FMul(a, b)  == Frac(a[1] * b[1], a[2] * b[2])
FDiv(a, b)  == Frac(a[1] * b[2], a[2] * b[1])
FNeg(a)     == <<-a[1], a[2]>>
FAbs(a)     == <<Abs(a[1]), a[2]>>
FLess(a, b) == a[1] * b[2] < b[1] * a[2]
FMin(a, b)  == IF FLess(b, a) THEN b ELSE a
FMax(a, b)  == IF FLess(a, b) THEN b ELSE a
FInt(a)     == IntDiv(a[1], a[2])
Zero        == <<0, 1>>

\* max_velo and max_accel of a stage, as read_systemini stores them
StageMaxVelo(stage)  == IF stage[2] = "X" THEN <<10, 1>> ELSE <<4, 1>>
StageMaxAccel(stage) == IF stage[2] = "X" THEN <<100, 1>> ELSE <<20, 1>>

\* str.upper, str.lower and str.title on the axis names of the model
Upper(a) == CASE a = "x" -> "X" [] a = "y" -> "Y" [] a = "q" -> "Q"
              [] a = "u" -> "U" [] OTHER -> a
Lower(a) == CASE a = "X" -> "x" [] a = "Y" -> "y" [] a = "Q" -> "q"
              [] a = "U" -> "u" [] OTHER -> a
Title(a) == Upper(a)

\* the stage that the loop over (axis, axis.upper(), axis.lower(), axis.title())
\* ends with: the first of the four that is a stage, else the last one tried
ResolveStage(axis) ==
    LET tries == <<axis, Upper(axis), Lower(axis), Title(axis)>>
        found == {k \in 1..4 : <<traj_group, tries[k]>> \in stages}
    IN  IF found = {} THEN <<traj_group, tries[4]>>
        ELSE <<traj_group, tries[CHOOSE k \in found : \A j \in found : k <= j]>>

\* The numbers of define_line_trajectories.  a is the record of the arguments
\* (pixeltime, scantime, accel are <<>> for None), stage the resolved stage.
\* error names the exception the arithmetic raises, "" if none.
LinePlan(a, stage) ==
    LET max_velo  == FMul(<<3, 4>>, StageMaxVelo(stage))
        max_accel == FMul(<<1, 2>>, StageMaxAccel(stage))
        accel     == FMin(IF a.accel = <<>> THEN max_accel ELSE a.accel, max_accel)
        scandir   == IF FLess(a.stop, a.start) THEN <<-1, 1>> ELSE <<1, 1>>
        step      == FMul(scandir, FAbs(a.step))
        span      == FAbs(FSub(a.stop, a.start))
        npulses   == FInt(FDiv(FAdd(span, FMul(FAbs(step), <<11, 10>>)), FAbs(step)))
        derive    == a.pixeltime = <<>> /\ a.scantime # <<>>
        pixeltime == IF derive
                     THEN FDiv(FAbs(a.scantime), <<npulses - 1, 1>>)
                     ELSE a.pixeltime
        scantime  == FMul(pixeltime, <<npulses, 1>>)
        distance  == FAdd(span, FAbs(step))
        velocity  == FMin(FDiv(distance, scantime), max_velo)
        ramptime  == FMax(<<1, 50000>>, FAbs(FDiv(velocity, accel)))
        rampdist  == FMul(velocity, ramptime)
        offset    == FAdd(FDiv(step, <<2, 1>>), FMul(scandir, rampdist))
        error     == IF a.step[1] = 0 THEN "ZeroDivisionError"
                     ELSE IF derive /\ npulses = 1 THEN "ZeroDivisionError"
                     ELSE IF ~derive /\ a.pixeltime = <<>> THEN "TypeError"
                     ELSE IF scantime[1] = 0 THEN "ZeroDivisionError"
                     ELSE IF accel[1] = 0 THEN "ZeroDivisionError"
                     ELSE ""
    IN  IF error # ""
        THEN \* the call raises: there are no numbers
             [error |-> error, npulses |-> 0, pixeltime |-> Zero,
              scantime |-> Zero, distance |-> Zero, velocity |-> Zero,
              accel |-> Zero, ramptime |-> Zero, rampdist |-> Zero,
              step |-> Zero, offset |-> Zero]
        ELSE [error |-> error, npulses |-> npulses, pixeltime |-> pixeltime,
              scantime |-> scantime, distance |-> distance, velocity |-> velocity,
              accel |-> accel, ramptime |-> ramptime, rampdist |-> rampdist,
              step |-> step, offset |-> offset]

\* self.trajectories['foreward'] and ['backward'] as lines 788-799 build them
LineTrajectory(axis, from, to, plan) ==
    [axes |-> <<axis>>, type |-> "line", pixeltime |-> plan.pixeltime,
     uploaded |-> FALSE, npulses |-> plan.npulses + 1, nsegments |-> 3,
     start |-> <<<<from>>>>, stop |-> <<to>>]

InList(x, seq) == \E k \in 1..Len(seq) : seq[k] = x

\* a backward trajectory with the ends of the forward one, not swapped
BackwardTrajectory_unswapped(axis, lo, hi, plan) ==
    LineTrajectory(axis, lo, hi, plan)

\* self.trajectories['backward']: from stop+offset to start-offset
BackwardTrajectory(axis, lo, hi, plan) == LineTrajectory(axis, hi, lo, plan)

\* the keys of the dict that fills linear_template: ramptime, scantime and
\* f"{ax}_{attr}" for the positioners of the trajectory group
LineAttrs == {"start", "stop", "step", "velo", "ramp", "dist"}
LineKeys ==
    {<<"", "ramptime">>, <<"", "scantime">>}
    \cup ({traj_positioners[i] : i \in 1..Len(traj_positioners)} \X LineAttrs)

\* the dict fore of lines 801-809
ForeValues(a, plan) ==
    LET base == [start |-> a.start, stop |-> a.stop, step |-> plan.step,
                 velo |-> plan.velocity, ramp |-> plan.rampdist,
                 dist |-> plan.distance]
    IN  [k \in LineKeys |->
            IF k = <<"", "ramptime">> THEN plan.ramptime
            ELSE IF k = <<"", "scantime">> THEN plan.scantime
            ELSE IF k[1] = a.axis THEN base[k[2]]
            ELSE Zero]

\* a dict back that is only a copy of fore
BackValues_copied(fore, axis) == fore

\* the dict back of lines 811-815
BackValues(fore, axis) ==
    [k \in DOMAIN fore |->
        IF k = <<axis, "start">> THEN fore[<<axis, "stop">>]
        ELSE IF k = <<axis, "stop">> THEN fore[<<axis, "start">>]
        ELSE IF k[1] = axis /\ k[2] \in {"velo", "ramp", "dist"} THEN FNeg(fore[k])
        ELSE fore[k]]

\* the names of the fields of a template
TemplateKeys(template) ==
    UNION {{template[l][k] : k \in 1..Len(template[l])} : l \in 1..Len(template)}
       \ {<<"0.000000">>}

\* self.linear_template % values works: the attribute is set and values has
\* every name of the template
TemplateFits(values) ==
    /\ linear_template # NoAttr
    /\ TemplateKeys(linear_template) \subseteq DOMAIN values

\* the values that fill linear_template for the forward trajectory of the
\* running define_line_trajectories call
ForeOfCall == ForeValues(loc.buff, LinePlan(loc.buff, ResolveStage(loc.buff.axis)))

\* a registry with the flag of the forward trajectory set alone
MarkUploaded_foreOnly(trajs) ==
    [n \in DOMAIN trajs |->
        IF n = "foreward" THEN [trajs[n] EXCEPT !.uploaded = TRUE] ELSE trajs[n]]

\* the registry with the uploaded flag of the two line trajectories set
MarkUploaded(trajs) ==
    [n \in DOMAIN trajs |->
        IF n \in {"foreward", "backward"}
        THEN [trajs[n] EXCEPT !.uploaded = TRUE] ELSE trajs[n]]

----------------------------------------------------------------------------
(* define_line_trajectories(axis, pixeltime, scantime, start, stop, step,  *)
(* accel, upload), group left at None                                      *)

define_line_trajectories(a, upload) ==
    /\ Enter("define_line_trajectories", "dl_begin",
             [InitLoc EXCEPT !.name = a.axis, !.upload = upload, !.buff = a])
    /\ hist' = NoHist
    /\ UNCHANGED <<session, trajectories, config, waiting, xps, file, dev_npoints>>

\* everything before the upload: the group check, the stage, the numbers, the
\* two entries of self.trajectories, the values of the two trajectory files
define_line_trajectories_begin ==
    /\ pc = "dl_begin"
    /\ LET a     == loc.buff
           stage == ResolveStage(a.axis)
           plan  == LinePlan(a, stage)
           lo    == FSub(a.start, plan.offset)
           hi    == FAdd(a.stop, plan.offset)
       IN  IF traj_group = None
           THEN Raise("XPSException") /\ UNCHANGED trajectories
           ELSE IF stage \notin stages
           THEN Raise("KeyError") /\ UNCHANGED trajectories
           ELSE IF plan.error # ""
           THEN Raise(plan.error) /\ UNCHANGED trajectories
           ELSE /\ trajectories' =
                     ("foreward" :> LineTrajectory(a.axis, lo, hi, plan)) @@
                     ("backward" :> BackwardTrajectory(a.axis, lo, hi, plan)) @@
                     trajectories
                /\ IF ~InList(a.axis, traj_positioners)
                   THEN \* back[f"{axis}_start"] = fore[f"{axis}_stop"]
                        Raise("KeyError")
                   ELSE IF loc.upload
                   THEN /\ pc' = "dl_upload_fore"
                        /\ UNCHANGED <<stack, outcome, loc>>
                   ELSE Return(<<TRUE>>, loc)
    /\ UNCHANGED <<session, call, sent, config, waiting, xps, file, dev_npoints, hist>>

\* self.upload_trajectory('foreward.trj', ...): the transfer works or raises
define_line_trajectories_upload_fore ==
    /\ pc = "dl_upload_fore"
    /\ IF ~TemplateFits(ForeOfCall)
       THEN \* self.linear_template % fore raises inside the try
            Raise("ValueError") /\ UNCHANGED sent
       ELSE /\ sent' = Append(sent, Cmd("upload_trajectory",
                                        <<"foreward.trj", ForeOfCall>>))
            /\ \E ok \in BOOLEAN :
                 IF ok THEN pc' = "dl_upload_back" /\ UNCHANGED <<stack, outcome, loc>>
                       ELSE Raise("ValueError")
    /\ UNCHANGED <<session, call, trajectories, config, waiting, xps, file,
                   dev_npoints, hist>>

\* self.upload_trajectory('backward.trj', ...) and the two uploaded flags
define_line_trajectories_upload_back ==
    /\ pc = "dl_upload_back"
    /\ sent' = Append(sent, Cmd("upload_trajectory",
                  <<"backward.trj", BackValues(ForeOfCall, loc.buff.axis)>>))
    /\ \E ok \in BOOLEAN :
         IF ok THEN /\ trajectories' = MarkUploaded(trajectories)
                    /\ Return(<<TRUE>>, loc)
               ELSE /\ Raise("ValueError")
                    /\ UNCHANGED trajectories
    /\ UNCHANGED <<session, call, config, waiting, xps, file, dev_npoints, hist>>

----------------------------------------------------------------------------
(* The session *)

\* the arguments the callers of the model use
Names     == {None, "foreward", "backward", "nosuch"}
SaveTexts == {DevRows(0, 1)}
LineArgs  ==
    {[axis |-> ax, start |-> <<0, 1>>, stop |-> <<1, 1>>, step |-> <<1, 4>>,
      pixeltime |-> <<1, 100>>, scantime |-> <<>>, accel |-> <<>>] :
        ax \in {"X", "x", "Q"}}

Init ==
    /\ traj_state = IDLE
    /\ traj_file = NoAttr
    /\ nsegments = -1
    /\ gather_titles = NoAttr
    /\ trajectories = <<>>
    /\ traj_group = "FINE"
    /\ traj_positioners = groups["FINE"].positioners
    /\ firmware_version = "XPS-D"
    /\ linear_template = LinearTemplate(traj_positioners)
    /\ conn = ConnectedConn
    /\ waiting = <<>>
    /\ xps = ConnectedXPS
    /\ pc = "ready"
    /\ stack = <<>>
    /\ loc = InitLoc
    /\ call = [op |-> "__init__", name |-> None, save |-> FALSE,
               move_to_start |-> FALSE, set_idle_when_done |-> FALSE,
               from |-> IDLE]
    /\ outcome = [kind |-> "returned", exc |-> "", val |-> <<>>]
    /\ sent = <<>>
    /\ file = <<>>
    /\ dev_npoints = 0
    /\ hist = [phase |-> "other", ok |-> TRUE, log |-> <<IDLE>>, faults |-> 0,
               budget |-> MaxFaults, armed |-> "never", first |-> 0,
               conf |-> NoAttr]

\* the clean argument of run_trajectory: its default
CleanFlags == {FALSE}

Next ==
    \/ \E a \in LineArgs, upload \in BOOLEAN : define_line_trajectories(a, upload)
    \/ define_line_trajectories_begin
    \/ define_line_trajectories_upload_fore
    \/ define_line_trajectories_upload_back
    \/ \E name \in Names \ {None}, mts \in BOOLEAN : arm_trajectory(name, mts)
    \/ arm_trajectory_check
    \/ arm_trajectory_move
    \/ arm_trajectory_reset
    \/ arm_trajectory_configure
    \/ arm_trajectory_pulse
    \/ arm_trajectory_verify
    \/ \E name \in Names, save \in BOOLEAN, clean \in CleanFlags :
           run_trajectory(name, save, clean)
    \/ run_trajectory_begin
    \/ run_trajectory_check
    \/ run_trajectory_action
    \/ run_trajectory_start
    \/ run_trajectory_exec
    \/ run_trajectory_remove
    \/ run_trajectory_save
    \/ run_trajectory_idle
    \/ read_and_save
    \/ read_and_save_begin
    \/ read_and_save_after
    \/ read_and_save_end
    \/ \E idle \in BOOLEAN : read_gathering(idle)
    \/ read_gathering_begin
    \/ read_gathering_poll
    \/ read_gathering_bulk
    \/ read_gathering_first
    \/ read_gathering_chunks
    \/ read_gathering_last
    \/ \E buff \in SaveTexts, idle \in BOOLEAN : save_gathering_file(buff, idle)
    \/ save_gathering_file_write
    \/ save_gathering_file_done

Spec == Init /\ [][Next]_vars

----------------------------------------------------------------------------
(* The gathering reader alone: read_gathering on a controller that holds   *)
(* up to MaxRows rows and fails up to MaxReadFaults commands of a read     *)

GatherInit ==
    /\ traj_state = IDLE
    /\ traj_file = NoAttr
    /\ nsegments = -1
    /\ gather_titles = NoAttr
    /\ trajectories = <<>>
    /\ traj_group = "FINE"
    /\ traj_positioners = groups["FINE"].positioners
    /\ firmware_version = "XPS-D"
    /\ linear_template = LinearTemplate(traj_positioners)
    /\ conn = ConnectedConn
    /\ waiting = <<>>
    /\ xps = ConnectedXPS
    /\ pc = "ready"
    /\ stack = <<>>
    /\ loc = InitLoc
    /\ call = [op |-> "__init__", name |-> None, save |-> FALSE,
               move_to_start |-> FALSE, set_idle_when_done |-> FALSE,
               from |-> IDLE]
    /\ outcome = [kind |-> "returned", exc |-> "", val |-> <<>>]
    /\ sent = <<>>
    /\ file = <<>>
    /\ dev_npoints \in 0..MaxRows
    /\ hist = [phase |-> "other", ok |-> TRUE, log |-> <<IDLE>>, faults |-> 0,
               budget |-> MaxReadFaults, armed |-> "never", first |-> 0,
               conf |-> NoAttr]

GatherNext ==
    \/ \E idle \in BOOLEAN : read_gathering(idle)
    \/ read_gathering_begin
    \/ read_gathering_poll
    \/ read_gathering_bulk
    \/ read_gathering_first
    \/ read_gathering_chunks
    \/ read_gathering_last

GatherSpec == GatherInit /\ [][GatherNext]_vars

----------------------------------------------------------------------------
(* The line planner alone: one define_line_trajectories call for each of   *)
(* the arguments of PlanArgs                                               *)

PlanNumbers == {<<-1, 1>>, <<0, 1>>, <<1, 1>>}
PlanArgs ==
    [axis : {"X", "Y"}, start : PlanNumbers, stop : PlanNumbers,
     step : {<<1, 4>>, <<-1, 2>>, <<0, 1>>},
     pixeltime : {<<>>, <<1, 100>>, <<1, 1>>},
     scantime : {<<>>, <<2, 1>>},
     accel : {<<>>, <<10, 1>>, <<1000, 1>>, <<-60, 1>>}]

\* the session just after define_line_trajectories was called
PlanInit ==
    /\ traj_state = IDLE
    /\ traj_file = NoAttr
    /\ nsegments = -1
    /\ gather_titles = NoAttr
    /\ trajectories = <<>>
    /\ traj_group = "FINE"
    /\ traj_positioners = groups["FINE"].positioners
    /\ firmware_version = "XPS-D"
    /\ linear_template = LinearTemplate(traj_positioners)
    /\ conn = ConnectedConn
    /\ waiting = <<>>
    /\ xps = ConnectedXPS
    /\ stack = <<>>
    /\ \E a \in PlanArgs, upload \in BOOLEAN :
         /\ loc = [InitLoc EXCEPT !.name = a.axis, !.upload = upload, !.buff = a]
         /\ call = [op |-> "define_line_trajectories", name |-> a.axis,
                    save |-> FALSE, move_to_start |-> FALSE,
                    set_idle_when_done |-> FALSE, from |-> IDLE]
    /\ pc = "dl_begin"
    /\ outcome = Pending
    /\ sent = <<>>
    /\ file = <<>>
    /\ dev_npoints = 0
    /\ hist = [phase |-> "other", ok |-> TRUE, log |-> <<IDLE>>, faults |-> 0,
               budget |-> MaxFaults, armed |-> "never", first |-> 0,
               conf |-> NoAttr]

PlanNext ==
    \/ define_line_trajectories_begin
    \/ define_line_trajectories_upload_fore
    \/ define_line_trajectories_upload_back

PlanSpec == PlanInit /\ [][PlanNext]_vars

----------------------------------------------------------------------------
(* define_array_trajectory(positions, dtime, max_accels, upload), name     *)
(* left at 'array': positions and max_accels are functions from keys to    *)
(* lists of numbers and to numbers (max_accels <<>> for None)              *)

\* key[len(tgroup)+1:] for a key that starts with the group name
StripGroup(key) ==
    CASE key = "FINE.X" /\ traj_group = "FINE" -> "X"
      [] key = "FINE.Y" /\ traj_group = "FINE" -> "Y"
      [] OTHER -> key

\* the lengths of the lists of positions
Lengths(positions) == {Len(positions[k]) : k \in DOMAIN positions}

\* input_ok after the loop over positions.items(): every key names a
\* positioner of the group and every list is as long as the first one
InputOk(positions) ==
    /\ \A key \in DOMAIN positions : InList(StripGroup(key), traj_positioners)
    /\ Cardinality(Lengths(positions)) <= 1

\* npts after the loop, for positions that are not empty
Npts(positions) == CHOOSE n \in Lengths(positions) : TRUE

\* an array trajectory that counts one segment for each pulse
SegmentCount_natural(npts) == npts + 1

\* npulses + 1 for npulses = npts + 1: the value of traj['npulses'] and
\* traj['nsegments'], the length of times and of the arrays of every axis
SegmentCount(npts) == (npts + 1) + 1

\* a cap on the acceleration that does not look at max_accels
EffectiveMaxAccel_unclamped(axis, max_accels, maxa) == maxa

\* maxa of one axis: min(max_accels[axes], maxa) if axes in max_accels
EffectiveMaxAccel(axis, max_accels, maxa) ==
    IF axis \in DOMAIN max_accels THEN FMin(max_accels[axis], maxa) ELSE maxa

\* the list of the values of a function on 1..n
List(f) == f \o <<>>

\* np.diff(f)
Diff(f) == List([i \in 1..(Len(f) - 1) |-> FSub(f[i + 1], f[i])])

\* np.gradient(f) with unit spacing: one-sided differences at the two ends,
\* centred differences in between
Gradient(f) ==
    List([i \in 1..Len(f) |->
            IF i = 1 THEN FSub(f[2], f[1])
            ELSE IF i = Len(f) THEN FSub(f[i], f[i - 1])
            ELSE FDiv(FSub(f[i + 1], f[i - 1]), <<2, 1>>)])

\* max(abs(f))
MaxAbs(f) ==
    LET vals == {FAbs(f[i]) : i \in 1..Len(f)}
    IN  CHOOSE m \in vals : \A v \in vals : ~FLess(m, v)

\* n zeros
Zeros(n) == List([i \in 1..n |-> Zero])

\* mid: the positions with two points added before and two after (922-927)
Mid(upos) ==
    LET n     == Len(upos)
        two   == <<2, 1>>
        three == <<3, 1>>
    IN  << FSub(FMul(three, upos[1]), FMul(two, upos[2])),
           FSub(FMul(two, upos[1]), upos[2]) >>
        \o upos
        \o << FSub(FMul(two, upos[n]), upos[n - 1]),
              FSub(FMul(three, upos[n]), FMul(two, upos[n - 1])) >>

\* 0.5*(mid[1:] + mid[:-1])
Midpoints(mid) ==
    List([i \in 1..(Len(mid) - 1) |-> FMul(<<1, 2>>, FAdd(mid[i + 1], mid[i]))])

\* start[axes] of lines 931-935 for the trigger positions trig
StartPosition(trig, dtime, maxv, maxa) ==
    LET p0 == trig[1]
        p1 == trig[2]
        p2 == trig[3]
        v0 == FDiv(FSub(p1, p0), dtime)
        v1 == FDiv(FSub(p2, p1), dtime)
        a0 == FDiv(FSub(v1, v0), dtime)
    IN  FSub(p1, FDiv(FMul(FMul(FSub(p1, p0), dtime),
                           FMax(v0, FMul(<<1, 2>>, maxv))),
                      FMax(a0, FMul(<<1, 2>>, maxa))))

\* np.diff(pos[axes] - start[axes])
Displacements(trig, start) ==
    Diff(List([i \in 1..Len(trig) |-> FSub(trig[i], start)]))

\* np.gradient(f)/times with times all dtime
Rates(f, dtime) == LET grad == Gradient(f) IN List([i \in 1..Len(f) |-> FDiv(grad[i], dtime)])

\* velo[axes]: the rates of pos, the last one set to 0
Velocities(pos, dtime) ==
    LET rates == Rates(pos, dtime)
    IN  List([i \in 1..Len(pos) |-> IF i = Len(pos) THEN Zero ELSE rates[i]])

\* the two checks of lines 942-947 and what the loop keeps of the axis
CheckedAxis(start, pos, velo, accel, maxv, maxa) ==
    [error |-> IF FLess(maxv, MaxAbs(velo)) THEN "ValueError"
               ELSE IF FLess(maxa, MaxAbs(accel)) THEN "ValueError"
               ELSE "",
     start |-> <<start>>, pos |-> pos, velo |-> velo, accel |-> accel]

\* start, pos, velo and accel of an axis that is in positions (lines 919-947);
\* error names the exception of the axis, "" if none
MovedAxis(upos, dtime, maxv, maxa) ==
    IF Len(upos) < 2
    THEN \* upos[0] or upos[1] does not exist
         [error |-> "IndexError", start |-> NoAttr, pos |-> <<>>,
          velo |-> <<>>, accel |-> <<>>]
    ELSE LET trig  == Midpoints(Mid(upos))
             start == StartPosition(trig, dtime, maxv, maxa)
             pos   == Displacements(trig, start)
             velo  == Velocities(pos, dtime)
             accel == Rates(velo, dtime)
         IN  CheckedAxis(start, pos, velo, accel, maxv, maxa)

\* an axis that is not in positions, with a start position all the same
HeldAxis_started(n) ==
    [error |-> "", start |-> <<Zero>>, pos |-> Zeros(n), velo |-> Zeros(n),
     accel |-> Zeros(n)]

\* start, pos, velo and accel of an axis that is not in positions
HeldAxis(n) ==
    [error |-> "", start |-> NoAttr, pos |-> Zeros(n), velo |-> Zeros(n),
     accel |-> Zeros(n)]

\* the numbers of the i-th positioner of the group for the arguments a
ArrayAxis(a, i) ==
    LET axis  == traj_positioners[i]
        stage == <<traj_group, axis>>
        maxa  == EffectiveMaxAccel(axis, a.max_accels, StageMaxAccel(stage))
    IN  IF axis \in DOMAIN a.positions
        THEN MovedAxis(a.positions[axis], FAbs(a.dtime), StageMaxVelo(stage), maxa)
        ELSE HeldAxis(SegmentCount(Npts(a.positions)))

\* the numbers of all positioners of the group, in the order of the group
ArrayAxes(a) == List([i \in 1..Len(traj_positioners) |-> ArrayAxis(a, i)])

\* the exception that the loop over all_axes raises: that of the first axis
\* in the order of the group that has one, "" if none has
FirstError(axes) ==
    LET bad == {i \in 1..Len(axes) : axes[i].error # ""}
    IN  IF bad = {} THEN ""
        ELSE axes[CHOOSE i \in bad : \A j \in bad : i <= j].error

\* the exception of the loop over all_axes for the arguments a
ArrayError(a) == FirstError(ArrayAxes(a))

RECURSIVE Remainder(_, _, _)
\* what is left of r / d for 0 <= r < d after k decimals
Remainder(r, d, k) ==
    IF k = 0 THEN r ELSE (Remainder(r, d, k - 1) * 10) % d

RECURSIVE Decimals(_, _, _)
\* the first k decimals of r / d for 0 <= r < d, as one number
Decimals(r, d, k) ==
    IF k = 0 THEN 0
    ELSE Decimals(r, d, k - 1) * 10 + ((Remainder(r, d, k - 1) * 10) \div d)

\* f"{x:.8f}": the sign, the integer part and the eight decimals of x
\* rounded to the nearest 1e-8, a tie to the even decimal
Format8(x) ==
    LET n    == Abs(x[1])
        d    == x[2]
        dec  == Decimals(n % d, d, 8)
        rest == Remainder(n % d, d, 8)
        up   == 2 * rest > d \/ (2 * rest = d /\ dec % 2 = 1)
        dec1 == IF up THEN dec + 1 ELSE dec
    IN  [neg  |-> x[1] < 0,
         int  |-> IF dec1 = 100000000 THEN (n \div d) + 1 ELSE n \div d,
         frac |-> IF dec1 = 100000000 THEN 0 ELSE dec1]

\* buff: the empty first line, then one line for each segment with dtime and,
\* for each axis of the group, p and v; a line is the list of its fields
PvtBuffer(axes, dtime, nseg) ==
    <<<<>>>> \o
    [n \in 1..nseg |->
        List([k \in 1..(1 + 2 * Len(axes)) |->
                Format8(IF k = 1 THEN dtime
                        ELSE IF k % 2 = 0 THEN axes[k \div 2].pos[n]
                        ELSE axes[k \div 2].velo[n])])]

\* the dict traj of lines 955-959 with its pvt_buffer, and its name if the
\* trajectory is to be uploaded
TrajectoryOf(axes, dtime, nseg, upload) ==
    (IF upload THEN [name |-> "array"] ELSE <<>>) @@
    [axes |-> traj_positioners, type |-> "array",
     start |-> List([i \in 1..Len(axes) |-> axes[i].start]),
     pixeltime |-> dtime, npulses |-> nseg, nsegments |-> nseg,
     uploaded |-> FALSE, pvt_buffer |-> PvtBuffer(axes, dtime, nseg)]

\* the dict traj for the arguments a
ArrayTrajectory(a) ==
    TrajectoryOf(ArrayAxes(a), FAbs(a.dtime), SegmentCount(Npts(a.positions)),
                 a.upload)

\* lines 871-903: the group, the loop over positions.items(), npulses
define_array_trajectory_begin ==
    /\ pc = "da_begin"
    /\ LET a == loc.buff
       IN  IF traj_group = None
           THEN Raise("XPSException")
           ELSE IF ~InputOk(a.positions)
           THEN \* if not input_ok: return
                Return(NoAttr, loc)
           ELSE IF DOMAIN a.positions = {}
           THEN \* npulses = npts+1 with npts None
                Raise("TypeError")
           ELSE /\ pc' = "da_axes"
                /\ UNCHANGED <<stack, outcome, loc>>
    /\ UNCHANGED <<session, call, sent, trajectories, config, waiting, xps, file,
                   dev_npoints, hist>>

\* lines 905-971 and, without upload, 981-982: the loop over all_axes, the
\* dict traj and its buffer
define_array_trajectory_axes ==
    /\ pc = "da_axes"
    /\ LET a == loc.buff
           err == ArrayError(a)
       IN  IF err # ""
           THEN Raise(err) /\ UNCHANGED trajectories
           ELSE IF a.upload
           THEN /\ pc' = "da_upload"
                /\ UNCHANGED <<stack, outcome, loc, trajectories>>
           ELSE LET traj == ArrayTrajectory(a)
                IN  /\ trajectories' = ("array" :> traj) @@ trajectories
                    /\ Return(<<traj>>, loc)
    /\ UNCHANGED <<session, call, sent, config, waiting, xps, file, dev_npoints, hist>>

\* lines 973-982: self.upload_trajectory('array.trj', buff) works or raises,
\* traj['uploaded'] says which, and the trajectory is registered
define_array_trajectory_upload ==
    /\ pc = "da_upload"
    /\ LET a    == loc.buff
           traj == ArrayTrajectory(a)
       IN  /\ sent' = Append(sent, Cmd("upload_trajectory",
                                       <<"array.trj", traj.pvt_buffer>>))
           /\ \E ok \in BOOLEAN :
                /\ trajectories' =
                     ("array" :> [traj EXCEPT !.uploaded = ok]) @@ trajectories
                /\ hist' = [hist EXCEPT !.ok = ok]
                /\ Return(<<[traj EXCEPT !.uploaded = ok]>>, loc)
    /\ UNCHANGED <<session, call, config, waiting, xps, file, dev_npoints>>

----------------------------------------------------------------------------
(* The array planner alone: one define_array_trajectory call for each of   *)
(* the arguments of ArrayArgs                                              *)

ArrayProfiles ==
    { << <<0, 1>> >>,
      << <<0, 1>>, <<1, 1>> >>,
      << <<0, 1>>, <<1, 1>>, <<5, 1>> >>,
      << <<0, 1>>, <<1, 1>>, <<13, 1>> >> }
ArrayKeySets == {{}, {"X"}, {"Y"}, {"X", "Y"}, {"FINE.X"}, {"Q"}, {"X", "Q"}}
ArrayPositions == UNION {[K -> ArrayProfiles] : K \in ArrayKeySets}
ArrayTimes == {<<1, 1>>, <<1, 4>>, <<-1, 1>>, <<0, 1>>}
ArrayOverrides ==
    {<<>>, "X" :> <<1, 2>>, "Y" :> <<1, 2>>, "Y" :> <<1000, 1>>}

\* the arguments of the callers of the model.  With dtime 0 the numbers of an
\* axis that is in positions are no longer finite: such calls are left out
ArrayArgs ==
    {a \in [positions : ArrayPositions, dtime : ArrayTimes,
            max_accels : ArrayOverrides, upload : BOOLEAN] :
        a.dtime = Zero => DOMAIN a.positions \cap {"X", "Y"} = {}}

\* an earlier define_array_trajectory call of the session
ArrayEarlier ==
    [positions |-> "Y" :> << <<0, 1>>, <<1, 1>>, <<5, 1>> >>, dtime |-> <<1, 1>>,
     max_accels |-> <<>>, upload |-> TRUE]

\* the session just after define_array_trajectory was called, with no
\* trajectory registered yet or with the one of an earlier call
ArrayInit ==
    /\ traj_state = IDLE
    /\ traj_file = NoAttr
    /\ nsegments = -1
    /\ gather_titles = NoAttr
    /\ traj_group = "FINE"
    /\ traj_positioners = groups["FINE"].positioners
    /\ firmware_version = "XPS-D"
    /\ linear_template = LinearTemplate(traj_positioners)
    /\ conn = ConnectedConn
    /\ waiting = <<>>
    /\ xps = ConnectedXPS
    /\ trajectories \in
         {<<>>, "array" :> [ArrayTrajectory(ArrayEarlier) EXCEPT !.uploaded = TRUE]}
    /\ stack = <<>>
    /\ \E a \in ArrayArgs :
         /\ loc = [InitLoc EXCEPT !.name = "array", !.upload = a.upload, !.buff = a]
         /\ call = [op |-> "define_array_trajectory", name |-> "array",
                    save |-> FALSE, move_to_start |-> FALSE,
                    set_idle_when_done |-> FALSE, from |-> IDLE,
                    args |-> a, registry |-> trajectories]
    /\ pc = "da_begin"
    /\ outcome = Pending
    /\ sent = <<>>
    /\ file = <<>>
    /\ dev_npoints = 0
    /\ hist = [phase |-> "other", ok |-> TRUE, log |-> <<IDLE>>, faults |-> 0,
               budget |-> MaxFaults, armed |-> "never", first |-> 0,
               conf |-> NoAttr]

ArrayNext ==
    \/ define_array_trajectory_begin
    \/ define_array_trajectory_axes
    \/ define_array_trajectory_upload

ArraySpec == ArrayInit /\ [][ArrayNext]_vars

----------------------------------------------------------------------------
(* set_trajectory_group(group), reenable left at False, and                *)
(* abort_group(group)                                                      *)

\* the event identifiers that set_trajectory_group removes: range(64)
EventSlots == 64

\* a set_trajectory_group that takes every configured group
ValidGroup_anyCategory(group) == group \in GroupNames

\* group in self.groups and its category.lower() starts with 'multiple'
ValidGroup(group) ==
    /\ group \in conn.groups
    /\ groups[group].category \in {"MultipleAxesInUse", "MultipleAxes"}

set_trajectory_group(group, reenable) ==
    /\ Enter("set_trajectory_group", "stg_check",
             [InitLoc EXCEPT !.name = group, !.reenable = reenable])
    /\ hist' = NoHist
    /\ UNCHANGED <<session, trajectories, config, waiting, xps, file, dev_npoints>>

\* the validity check, which raises before anything is assigned, then
\* traj_group and traj_positioners
set_trajectory_group_check ==
    /\ pc = "stg_check"
    /\ IF ~ValidGroup(loc.name)
       THEN /\ Raise("XPSException")
            /\ UNCHANGED <<traj_group, traj_positioners>>
       ELSE /\ traj_group' = loc.name
            /\ traj_positioners' = groups[loc.name].positioners
            /\ pc' = IF loc.reenable THEN "stg_disable" ELSE "stg_events"
            /\ UNCHANGED <<stack, outcome, loc>>
    /\ UNCHANGED <<session, call, sent, trajectories, firmware_version,
                   linear_template, conn, waiting, xps, file, dev_npoints, hist>>

\* reenable: disable_group(traj_group), whose XPSException is dropped
set_trajectory_group_disable ==
    /\ pc = "stg_disable"
    /\ sent' = Append(sent, Cmd("GroupMotionDisable", <<traj_group>>))
    /\ \E err \in DevAnswers : hist' = Answered(hist, err)
    /\ pc' = "stg_enable"
    /\ UNCHANGED <<session, stack, outcome, loc, call, trajectories, config,
                   waiting, xps, file, dev_npoints>>

\* reenable: enable_group(traj_group); when it raises XPSException the
\* method prints a warning and returns
set_trajectory_group_enable ==
    /\ pc = "stg_enable"
    /\ sent' = Append(sent, Cmd("GroupMotionEnable", <<traj_group>>))
    /\ \E err \in DevAnswers :
         /\ hist' = Answered(hist, err)
         /\ IF check_error(err, TRUE)
            THEN Return(<<>>, loc)
            ELSE /\ pc' = "stg_events"
                 /\ UNCHANGED <<stack, outcome, loc>>
    /\ UNCHANGED <<session, call, trajectories, config, waiting, xps, file,
                   dev_npoints>>

\* for i in range(64): EventExtendedRemove(i), the answers are dropped; then
\* the template of the line trajectory file is built from traj_positioners
set_trajectory_group_events ==
    /\ pc = "stg_events"
    /\ sent' = sent \o [i \in 1..EventSlots |-> Cmd("EventExtendedRemove", <<i - 1>>)]
    /\ linear_template' = LinearTemplate(traj_positioners)
    /\ Return(<<>>, loc)
    /\ UNCHANGED <<session, call, trajectories, traj_group, traj_positioners,
                   firmware_version, conn, waiting, xps, file, dev_npoints, hist>>

\* the group that abort_group aborts: the given one when it is configured,
\* else the trajectory group (None when there is none)
AbortTarget(group) ==
    IF group = None \/ group \notin GroupNames THEN traj_group ELSE group

abort_group(group) ==
    /\ Enter("abort_group", "ab_send", [InitLoc EXCEPT !.name = group])
    /\ hist' = NoHist
    /\ UNCHANGED <<session, trajectories, config, waiting, xps, file, dev_npoints>>

\* GroupMoveAbort for the target goes out; without a target abort_group
\* prints and returns
abort_group_send ==
    /\ pc = "ab_send"
    /\ IF AbortTarget(loc.name) = None
       THEN /\ Return(<<>>, loc)
            /\ UNCHANGED sent
       ELSE /\ sent' = Append(sent, Cmd("GroupMoveAbort", <<AbortTarget(loc.name)>>))
            /\ pc' = "ab_answer"
            /\ UNCHANGED <<stack, outcome, loc>>
    /\ UNCHANGED <<session, call, trajectories, config, waiting, xps, file,
                   dev_npoints, hist>>

\* the answer to GroupMoveAbort arrives; it is printed and dropped
abort_group_answer ==
    /\ pc = "ab_answer"
    /\ Return(<<>>, loc)
    /\ UNCHANGED <<session, call, sent, trajectories, config, waiting, xps,
                   file, dev_npoints, hist>>

----------------------------------------------------------------------------
(* The session with its trajectory group chosen by the caller: two groups  *)
(* of system.ini hold several axes, so the constructor sets none           *)

\* most commands the controller fails during one call of this session
MaxGroupFaults == 1

GroupArgs     == {None, "FINE", "COARSE", "DET", "NOSUCH"}
GroupLineArgs ==
    {[axis |-> ax, start |-> <<0, 1>>, stop |-> <<1, 1>>, step |-> <<1, 4>>,
      pixeltime |-> <<1, 100>>, scantime |-> <<>>, accel |-> <<>>] :
        ax \in {"X", "U"}}
GroupNamesArmed == {"foreward"}

GroupInit ==
    /\ traj_state = IDLE
    /\ traj_file = NoAttr
    /\ nsegments = -1
    /\ gather_titles = NoAttr
    /\ trajectories = <<>>
    /\ traj_group = None
    /\ traj_positioners = None
    /\ firmware_version = "XPS-D"
    /\ linear_template = NoAttr
    /\ conn = ConnectedConn
    /\ waiting = <<>>
    /\ xps = ConnectedXPS
    /\ pc = "ready"
    /\ stack = <<>>
    /\ loc = InitLoc
    /\ call = [op |-> "__init__", name |-> None, save |-> FALSE,
               move_to_start |-> FALSE, set_idle_when_done |-> FALSE,
               from |-> IDLE]
    /\ outcome = [kind |-> "returned", exc |-> "", val |-> <<>>]
    /\ sent = <<>>
    /\ file = <<>>
    /\ dev_npoints = 0
    /\ hist = [phase |-> "other", ok |-> TRUE, log |-> <<IDLE>>, faults |-> 0,
               budget |-> MaxGroupFaults, armed |-> "never", first |-> 0,
               conf |-> NoAttr]

GroupNext ==
    \/ \E group \in GroupArgs \ {None} : set_trajectory_group(group, FALSE)
    \/ set_trajectory_group_check
    \/ set_trajectory_group_events
    \/ \E group \in GroupArgs : abort_group(group)
    \/ abort_group_send
    \/ abort_group_answer
    \/ \E a \in GroupLineArgs, upload \in BOOLEAN : define_line_trajectories(a, upload)
    \/ define_line_trajectories_begin
    \/ define_line_trajectories_upload_fore
    \/ define_line_trajectories_upload_back
    \/ \E name \in GroupNamesArmed, mts \in BOOLEAN : arm_trajectory(name, mts)
    \/ arm_trajectory_check
    \/ arm_trajectory_move
    \/ arm_trajectory_reset
    \/ arm_trajectory_configure
    \/ arm_trajectory_pulse
    \/ arm_trajectory_verify
    \/ \E buff \in SaveTexts, idle \in BOOLEAN : save_gathering_file(buff, idle)
    \/ save_gathering_file_write
    \/ save_gathering_file_done

GroupSpec == GroupInit /\ [][GroupNext]_vars

----------------------------------------------------------------------------
(* The two defining calls alone, each on a registry that is empty or holds *)
(* the uploaded trajectories of an earlier call                            *)

\* the line trajectories of an earlier define_line_trajectories('X') whose
\* two files were transferred
EarlierLines ==
    LET a    == CHOOSE x \in LineArgs : x.axis = "X"
        plan == LinePlan(a, <<"FINE", "X">>)
        lo   == FSub(a.start, plan.offset)
        hi   == FAdd(a.stop, plan.offset)
    IN  ("foreward" :> [LineTrajectory("X", lo, hi, plan) EXCEPT !.uploaded = TRUE]) @@
        ("backward" :> [BackwardTrajectory("X", lo, hi, plan) EXCEPT !.uploaded = TRUE])

\* the session just after define_line_trajectories was called again
RedefineInit ==
    /\ traj_state = IDLE
    /\ traj_file = NoAttr
    /\ nsegments = -1
    /\ gather_titles = NoAttr
    /\ trajectories \in {<<>>, EarlierLines}
    /\ traj_group = "FINE"
    /\ traj_positioners = groups["FINE"].positioners
    /\ firmware_version = "XPS-D"
    /\ linear_template = LinearTemplate(traj_positioners)
    /\ conn = ConnectedConn
    /\ waiting = <<>>
    /\ xps = ConnectedXPS
    /\ stack = <<>>
    /\ \E a \in LineArgs, upload \in BOOLEAN :
         /\ loc = [InitLoc EXCEPT !.name = a.axis, !.upload = upload, !.buff = a]
         /\ call = [op |-> "define_line_trajectories", name |-> a.axis,
                    save |-> FALSE, move_to_start |-> FALSE,
                    set_idle_when_done |-> FALSE, from |-> IDLE,
                    args |-> a, registry |-> trajectories]
    /\ pc = "dl_begin"
    /\ outcome = Pending
    /\ sent = <<>>
    /\ file = <<>>
    /\ dev_npoints = 0
    /\ hist = [phase |-> "other", ok |-> TRUE, log |-> <<IDLE>>, faults |-> 0,
               budget |-> MaxFaults, armed |-> "never", first |-> 0,
               conf |-> NoAttr]

UploadInit == RedefineInit \/ ArrayInit

UploadNext == PlanNext \/ ArrayNext

UploadSpec == UploadInit /\ [][UploadNext]_vars

----------------------------------------------------------------------------
(* The driver XPS: TCP_ConnectToServer, TCP_CloseSocket, a command sent    *)
(* with Send, and NewportXPS.check_error with the driver's error list.     *)
(* Each call is one step; a socket id argument is <<id>>, <<>> for None.   *)

\* how far below zero repeated TCP_CloseSocket calls may take nbSockets
MaxOverClose == 1

\* the record of a driver call
DriverCall(op, args) ==
    [op |-> op, name |-> None, save |-> FALSE, move_to_start |-> FALSE,
     set_idle_when_done |-> FALSE, from |-> traj_state, args |-> args]

Returned(val) == [kind |-> "returned", exc |-> "", val |-> val]
Raised(exc, val) == [kind |-> "raised", exc |-> exc, val |-> val]

\* XPS.__usedSockets[sid]: a defaultdict(int), 0 for a key it does not hold
UsedSocket(sid) == IF sid \in SocketIds THEN xps.usedSockets[sid] ELSE 0

\* a guard that takes every id of the range of socket ids
InvalidSocket_outOfRange(sid) == sid \notin SocketIds

\* withValidSocket raises for a socket id that is not marked as used
InvalidSocket(sid) == UsedSocket(sid) = 0

\* the id that the while loop of TCP_ConnectToServer ends with
FreeSocket ==
    IF \E s \in SocketIds : xps.usedSockets[s] # 1
    THEN CHOOSE s \in SocketIds :
            xps.usedSockets[s] # 1 /\ \A t \in 0..(s - 1) : xps.usedSockets[t] = 1
    ELSE MaxSockets

\* TCP_ConnectToServer: -1 without a free socket or when the connection
\* fails (the id stays marked as used), else the error list is read with
\* ErrorListGet, errorcodes is filled from it and the id is returned
ConnectToServer(connected, err) ==
    LET id     == FreeSocket
        looped == IF id > 0 THEN <<id>> ELSE xps.socketId
    IN  IF xps.nbSockets >= MaxSockets
        THEN [ret |-> <<-1>>, sent |-> <<>>, xps |-> xps]
        ELSE IF id = MaxSockets
        THEN [ret |-> <<-1>>, sent |-> <<>>,
              xps |-> [xps EXCEPT !.socketId = looped]]
        ELSE IF ~connected
        THEN [ret |-> <<-1>>, sent |-> <<>>,
              xps |-> [xps EXCEPT !.socketId = looped,
                                  !.usedSockets[id] = 1,
                                  !.nbSockets = @ + 1,
                                  !.sockets[id] = "unconnected"]]
        ELSE [ret |-> <<id>>, sent |-> <<Cmd("ErrorListGet", <<id>>)>>,
              xps |-> [xps EXCEPT !.socketId = <<id>>,
                                  !.usedSockets[id] = 1,
                                  !.nbSockets = @ + 1,
                                  !.sockets[id] = "open",
                                  !.errorcodes =
                                      IF err = 0 THEN ErrorCodes(ErrorList)
                                      ELSE ErrorCodes(<< <<>> >>)]]

\* a TCP_ConnectToServer call of the caller of the driver
TCP_ConnectToServer ==
    /\ pc = "ready"
    /\ call' = DriverCall("TCP_ConnectToServer", <<>>)
    /\ \E connected \in BOOLEAN, err \in DevErrs :
         /\ outcome' = Returned(ConnectToServer(connected, err).ret)
         /\ sent' = ConnectToServer(connected, err).sent
         /\ xps' = ConnectToServer(connected, err).xps
    /\ UNCHANGED <<session, trajectories, config, waiting, file, dev_npoints,
                   hist, pc, stack, loc>>

\* TCP_CloseSocket(socketId): for an id of the range the socket is closed and
\* the id marked as unused, unless close() raises socket.error
TCP_CloseSocket(sid) ==
    /\ pc = "ready"
    /\ xps.nbSockets > -MaxOverClose
    /\ call' = DriverCall("TCP_CloseSocket", <<sid>>)
    /\ sent' = <<>>
    /\ IF sid \notin SocketIds
       THEN outcome' = Returned(<<>>) /\ UNCHANGED xps
       ELSE IF xps.sockets[sid] = "none"
       THEN outcome' = Raised("KeyError", <<>>) /\ UNCHANGED xps
       ELSE \E closed \in BOOLEAN :
            /\ outcome' = Returned(<<>>)
            /\ xps' = IF closed
                      THEN [xps EXCEPT !.sockets[sid] = "closed",
                                       !.usedSockets[sid] = 0,
                                       !.nbSockets = @ - 1]
                      ELSE xps
    /\ UNCHANGED <<session, trajectories, config, waiting, file, dev_npoints,
                   hist, pc, stack, loc>>

\* a driver command: Send(socketId, cmd) and __sendAndReceive behind
\* withValidSocket.  Without an id the one of self.socketId is taken; the id
\* is remembered before the guard looks at it.
Send(arg, cmd) ==
    /\ pc = "ready"
    /\ call' = DriverCall("Send", arg)
    /\ LET given == IF arg = <<>> THEN xps.socketId ELSE arg
       IN  IF given = <<>>
           THEN /\ outcome' = Raised("AttributeError", <<>>)
                /\ sent' = <<>>
                /\ UNCHANGED xps
           ELSE /\ xps' = [xps EXCEPT !.socketId = given]
                /\ IF InvalidSocket(given[1])
                   THEN /\ outcome' = Raised("XPSException", <<>>)
                        /\ sent' = <<>>
                   ELSE IF xps.sockets[given[1]] = "none"
                   THEN /\ outcome' = Raised("KeyError", <<>>)
                        /\ sent' = <<>>
                   ELSE IF xps.sockets[given[1]] # "open"
                   THEN /\ outcome' = Returned(<<SocketError>>)
                        /\ sent' = <<>>
                   ELSE \E err \in DevErrs :
                        /\ outcome' = Returned(<<err>>)
                        /\ sent' = <<Cmd(cmd, given)>>
    /\ UNCHANGED <<session, trajectories, config, waiting, file, dev_npoints,
                   hist, pc, stack, loc>>

\* NewportXPS.check_error(err, msg, with_raise): the exception carries msg,
\* the description and the code
check_error_call(err, msg, with_raise) ==
    /\ pc = "ready"
    /\ call' = DriverCall("check_error", <<err, msg, with_raise>>)
    /\ sent' = <<>>
    /\ outcome' = IF check_error(err, with_raise)
                  THEN Raised("XPSException",
                              <<msg, ErrorDescription(err), ToString(err)>>)
                  ELSE Returned(<<>>)
    /\ UNCHANGED <<session, trajectories, config, waiting, xps, file,
                   dev_npoints, hist, pc, stack, loc>>

SendArgs    == {<<>>, <<-1>>} \cup {<<s>> : s \in 0..MaxSockets}
CloseArgs   == {-1} \cup 0..MaxSockets
CheckedErrs == {0, SocketError, -17, 7}

\* a driver that no session has connected yet
DriverInit ==
    /\ traj_state = IDLE
    /\ traj_file = NoAttr
    /\ nsegments = -1
    /\ gather_titles = NoAttr
    /\ trajectories = <<>>
    /\ traj_group = None
    /\ traj_positioners = None
    /\ firmware_version = "XPS-D"
    /\ linear_template = NoAttr
    /\ conn = ConnectedConn
    /\ waiting = <<>>
    /\ xps = NewXPS
    /\ pc = "ready"
    /\ stack = <<>>
    /\ loc = InitLoc
    /\ call = [op |-> "__init__", name |-> None, save |-> FALSE,
               move_to_start |-> FALSE, set_idle_when_done |-> FALSE,
               from |-> IDLE, args |-> <<>>]
    /\ outcome = [kind |-> "returned", exc |-> "", val |-> <<>>]
    /\ sent = <<>>
    /\ file = <<>>
    /\ dev_npoints = 0
    /\ hist = [phase |-> "other", ok |-> TRUE, log |-> <<IDLE>>, faults |-> 0,
               budget |-> MaxFaults, armed |-> "never", first |-> 0,
               conf |-> NoAttr]

DriverNext ==
    \/ TCP_ConnectToServer
    \/ \E sid \in CloseArgs : TCP_CloseSocket(sid)
    \/ \E arg \in SendArgs : Send(arg, "GroupStatusGet")
    \/ \E err \in CheckedErrs, with_raise \in BOOLEAN :
          check_error_call(err, "Move", with_raise)

DriverSpec == DriverInit /\ [][DriverNext]_vars

----------------------------------------------------------------------------
(* Two callers on one session.  No method takes a lock and Send writes its *)
(* command and then reads the socket until an answer is complete, so the   *)
(* steps of two calls interleave, and a caller that reads while the other  *)
(* caller's command is unanswered may take the answer meant for the other. *)

\* most changes of the caller at the processor
MaxYields == 2

\* a call with its position and locals, and the number of times the
\* processor has changed hands so far
Context(p, s, l, c, o, n) ==
    [pc |-> p, stack |-> s, loc |-> l, call |-> c, outcome |-> o, yields |-> n]

\* the processor goes to the other caller
yield ==
    /\ waiting # <<>>
    /\ waiting[1].pc # "ready"
    /\ waiting[1].yields < MaxYields
    /\ pc' = waiting[1].pc
    /\ stack' = waiting[1].stack
    /\ loc' = waiting[1].loc
    /\ call' = waiting[1].call
    /\ outcome' = waiting[1].outcome
    /\ waiting' = <<Context(pc, stack, loc, call, outcome, waiting[1].yields + 1)>>
    /\ UNCHANGED <<session, trajectories, config, xps, sent, file,
                   dev_npoints, hist>>

\* the count query of read_gathering goes out while the other caller's
\* GroupMoveAbort is unanswered, and the reader takes the answer to
\* GroupMoveAbort: error 0 and a text that holds no two integers, on which
\* XPSOutputs('int', 'int').parse raises ValueError
read_gathering_poll_crossed ==
    /\ pc = "rg_poll"
    /\ waiting # <<>>
    /\ waiting[1].pc = "ab_answer"
    /\ sent' = Append(sent, Cmd("GatheringCurrentNumberGet", <<>>))
    /\ Raise("ValueError")
    /\ UNCHANGED <<session, call, trajectories, config, waiting, xps, file,
                   dev_npoints, hist>>

CallRecord(op, name, save, from) ==
    [op |-> op, name |-> name, save |-> save, move_to_start |-> FALSE,
     set_idle_when_done |-> FALSE, from |-> from]

\* a caller that has just called run_trajectory('foreward', save)
RunCaller(save) ==
    Context("run_begin", <<>>,
            [InitLoc EXCEPT !.name = "foreward", !.save = save],
            CallRecord("run_trajectory", "foreward", save, ARMED), Pending, 0)

\* a caller that has just called abort_group(group)
AbortCaller(group, from) ==
    Context("ab_send", <<>>, [InitLoc EXCEPT !.name = group],
            CallRecord("abort_group", group, FALSE, from), Pending, 0)

\* a caller that has just called read_gathering()
ReadCaller ==
    Context("rg_begin", <<>>, InitLoc,
            CallRecord("read_gathering", None, FALSE, IDLE), Pending, 0)

\* the rows the controller holds when a fresh session reads the gathering
CallerRows == 0..2

\* either the session is ARMED for 'foreward' (after define_line_trajectories
\* on X and arm_trajectory) and one caller has called run_trajectory while
\* the other has called run_trajectory or abort_group, or the session is
\* fresh, without a trajectory group, and one caller has called
\* read_gathering while the other has called abort_group.  The controller
\* answers every command without error, so the bulk read of the gathering
\* always works and the chunk reads never run.
CallersInit ==
    /\ firmware_version = "XPS-D"
    /\ xps = ConnectedXPS
    /\ file = <<>>
    /\ sent = <<>>
    /\ \/ /\ traj_group = "FINE"
          /\ traj_positioners = groups["FINE"].positioners
          /\ linear_template = LinearTemplate(traj_positioners)
          /\ conn = ConnectedConn
          /\ traj_state = ARMED
          /\ traj_file = <<"foreward", "trj">>
          /\ trajectories = EarlierLines
          /\ nsegments = trajectories["foreward"].nsegments
          /\ gather_titles = GatherTitles(GatherOutputs(<<"X">>))
          /\ dev_npoints = 0
          /\ hist = [phase |-> "run", ok |-> TRUE, log |-> <<IDLE, ARMING, ARMED>>,
                     faults |-> 0, budget |-> 0, armed |-> "fresh", first |-> 0,
                     conf |-> GatherOutputs(<<"X">>)]
          /\ \E save \in BOOLEAN, other \in
                  {RunCaller(s) : s \in BOOLEAN} \cup
                  {AbortCaller(g, ARMED) : g \in GroupArgs} :
                /\ pc = RunCaller(save).pc
                /\ stack = RunCaller(save).stack
                /\ loc = RunCaller(save).loc
                /\ call = RunCaller(save).call
                /\ outcome = RunCaller(save).outcome
                /\ waiting = <<other>>
       \/ /\ traj_group = None
          /\ traj_positioners = None
          /\ linear_template = NoAttr
          /\ conn = ConnectedConn
          /\ traj_state = IDLE
          /\ traj_file = NoAttr
          /\ trajectories = <<>>
          /\ nsegments = -1
          /\ gather_titles = NoAttr
          /\ dev_npoints \in CallerRows
          /\ hist = [phase |-> "other", ok |-> TRUE, log |-> <<IDLE>>,
                     faults |-> 0, budget |-> 0, armed |-> "never", first |-> 0,
                     conf |-> NoAttr]
          /\ pc = ReadCaller.pc
          /\ stack = ReadCaller.stack
          /\ loc = ReadCaller.loc
          /\ call = ReadCaller.call
          /\ outcome = ReadCaller.outcome
          /\ \E g \in GroupArgs : waiting = <<AbortCaller(g, IDLE)>>

CallersNext ==
    \/ yield
    \/ abort_group_send
    \/ abort_group_answer
    \/ run_trajectory_begin
    \/ run_trajectory_check
    \/ run_trajectory_action
    \/ run_trajectory_start
    \/ run_trajectory_exec
    \/ run_trajectory_remove
    \/ run_trajectory_save
    \/ run_trajectory_idle
    \/ arm_trajectory_check
    \/ arm_trajectory_move
    \/ arm_trajectory_reset
    \/ arm_trajectory_configure
    \/ arm_trajectory_pulse
    \/ arm_trajectory_verify
    \/ read_and_save_begin
    \/ read_and_save_after
    \/ read_and_save_end
    \/ read_gathering_begin
    \/ read_gathering_poll
    \/ read_gathering_poll_crossed
    \/ read_gathering_bulk
    \/ save_gathering_file_write
    \/ save_gathering_file_done

CallersSpec == CallersInit /\ [][CallersNext]_vars

----------------------------------------------------------------------------
(* arm_trajectory alone: one call on a session that holds uploaded line    *)
(* trajectories and an array trajectory                                    *)

\* an earlier define_array_trajectory call that moves both axes of the group
ArrayBoth ==
    [ArrayEarlier EXCEPT !.positions =
        ("X" :> << <<0, 1>>, <<1, 1>>, <<5, 1>> >>) @@
        ("Y" :> << <<0, 1>>, <<1, 1>>, <<5, 1>> >>)]

ArmNames == {"foreward", "backward", "array", "nosuch"}

ArmInit ==
    /\ traj_state \in {IDLE, ARMED}
    /\ traj_file = NoAttr
    /\ nsegments = -1
    /\ gather_titles = NoAttr
    /\ traj_group = "FINE"
    /\ traj_positioners = groups["FINE"].positioners
    /\ firmware_version = "XPS-D"
    /\ linear_template = LinearTemplate(traj_positioners)
    /\ conn = ConnectedConn
    /\ waiting = <<>>
    /\ xps = ConnectedXPS
    /\ \E a \in {ArrayEarlier, ArrayBoth}, up \in BOOLEAN :
         trajectories = EarlierLines @@
             ("array" :> [ArrayTrajectory(a) EXCEPT !.uploaded = up])
    /\ stack = <<>>
    /\ \E name \in ArmNames, mts \in BOOLEAN :
         /\ loc = [InitLoc EXCEPT !.name = name, !.move_to_start = mts]
         /\ call = [op |-> "arm_trajectory", name |-> name, save |-> FALSE,
                    move_to_start |-> mts, set_idle_when_done |-> FALSE,
                    from |-> traj_state]
    /\ pc = "arm_check"
    /\ outcome = Pending
    /\ sent = <<>>
    /\ file = <<>>
    /\ dev_npoints = 0
    /\ hist = [phase |-> "arm", ok |-> TRUE, log |-> <<traj_state>>, faults |-> 0,
               budget |-> MaxFaults, armed |-> "never", first |-> 0,
               conf |-> NoAttr]

ArmNext ==
    \/ arm_trajectory_check
    \/ arm_trajectory_move
    \/ arm_trajectory_reset
    \/ arm_trajectory_configure
    \/ arm_trajectory_pulse
    \/ arm_trajectory_verify

ArmSpec == ArmInit /\ [][ArmNext]_vars

----------------------------------------------------------------------------
(* The end of read_gathering alone, lines 1207-1215, for every buffer of   *)
(* up to MaxText characters of TextChars                                   *)

MaxText == 3
TextChars == {";", "\r", "\t", "\n", " ", "7"}
Texts == UNION {[1..n -> TextChars] : n \in 0..MaxText}

\* read_gathering holds the concatenated buffer and is about to clean it
CleanInit ==
    /\ traj_state = READING
    /\ traj_file = NoAttr
    /\ nsegments = -1
    /\ gather_titles = NoAttr
    /\ trajectories = <<>>
    /\ traj_group = "FINE"
    /\ traj_positioners = groups["FINE"].positioners
    /\ firmware_version = "XPS-D"
    /\ linear_template = LinearTemplate(traj_positioners)
    /\ conn = ConnectedConn
    /\ waiting = <<>>
    /\ xps = ConnectedXPS
    /\ stack = <<>>
    /\ \E buff \in Texts, idle \in BOOLEAN :
         /\ loc = [InitLoc EXCEPT !.set_idle_when_done = idle, !.buff = buff,
                                  !.npulses = Len(buff)]
         /\ call = [op |-> "read_gathering", name |-> None, save |-> FALSE,
                    move_to_start |-> FALSE, set_idle_when_done |-> idle,
                    from |-> IDLE, args |-> buff]
    /\ pc = "rg_clean"
    /\ outcome = Pending
    /\ sent = <<>>
    /\ file = <<>>
    /\ dev_npoints = 0
    /\ hist = [phase |-> "read", ok |-> TRUE, log |-> <<IDLE, READING>>,
               faults |-> 0, budget |-> 0, armed |-> "never", first |-> 0,
               conf |-> NoAttr]

\* lines 1207-1215: obuff, the IDLE state, the returned pair
read_gathering_clean ==
    /\ pc = "rg_clean"
    /\ read_gathering_finish(loc.npulses, loc.buff, hist)
    /\ UNCHANGED <<traj_file, nsegments, gather_titles, call, sent, trajectories,
                   config, waiting, xps, file, dev_npoints>>

CleanNext == read_gathering_clean

CleanSpec == CleanInit /\ [][CleanNext]_vars

----------------------------------------------------------------------------
(* set_trajectory_group(group, reenable) with both values of reenable, on  *)
(* a controller that fails up to MaxGroupFaults commands of a call, and    *)
(* the define_line_trajectories calls that use the template                *)

ReenableInit == GroupInit

ReenableNext ==
    \/ \E group \in GroupArgs \ {None}, reenable \in BOOLEAN :
           set_trajectory_group(group, reenable)
    \/ set_trajectory_group_check
    \/ set_trajectory_group_disable
    \/ set_trajectory_group_enable
    \/ set_trajectory_group_events
    \/ \E a \in GroupLineArgs, upload \in BOOLEAN : define_line_trajectories(a, upload)
    \/ define_line_trajectories_begin
    \/ define_line_trajectories_upload_fore
    \/ define_line_trajectories_upload_back

ReenableSpec == ReenableInit /\ [][ReenableNext]_vars

----------------------------------------------------------------------------
(* connect(), read_systemini() and the decorator withConnectedXPS, for the *)
(* system.ini files of Inis.  The controller answers the version query     *)
(* with an XPS-D version and the file transfer of system.ini works.        *)

\* the parsed configurations: all groups and stages; one multiple-axes group
\* and a single-axis group with their stages; one multiple-axes group and no
\* stage section; nothing at all; a single-axis group with its stage
Inis ==
    {FullIni,
     [groups |-> {"FINE", "DET"},
      stages |-> {<<"FINE", "X">>, <<"FINE", "Y">>, <<"DET", "Z">>}],
     [groups |-> {"FINE"}, stages |-> {}],
     [groups |-> {}, stages |-> {}],
     [groups |-> {"DET"}, stages |-> {<<"DET", "Z">>}]}

\* pvtgroups of read_systemini: the groups whose type starts with 'multiple'
PvtGroups(ini) ==
    {g \in ini.groups : groups[g].category \in {"MultipleAxesInUse", "MultipleAxes"}}

\* the stage sections in the order of the file
StageOrder == <<<<"FINE", "X">>, <<"FINE", "Y">>, <<"COARSE", "U">>,
                <<"COARSE", "V">>, <<"DET", "Z">>>>

RECURSIVE StageQueries(_, _)
\* the two queries read_systemini sends for every stage of self.stages
StageQueries(k, known) ==
    IF k > Len(StageOrder) THEN <<>>
    ELSE (IF StageOrder[k] \in known
          THEN <<Cmd("PositionerMaximumVelocityAndAccelerationGet", <<StageOrder[k]>>),
                 Cmd("PositionerUserTravelLimitsGet", <<StageOrder[k]>>)>>
          ELSE <<>>) \o StageQueries(k + 1, known)

\* the condition of withConnectedXPS under which it calls connect()
NotConnected == conn.sid = <<>> \/ conn.groups = {} \/ conn.stages = {}

\* NewportXPS(host): __init__ sets the fields of a new session and calls
\* connect().  The sockets of the driver are class attributes and stay.
NewportXPS_init ==
    /\ Enter("__init__", "cn_open", InitLoc)
    /\ traj_state' = IDLE
    /\ traj_file' = NoAttr
    /\ nsegments' = -1
    /\ gather_titles' = NoAttr
    /\ trajectories' = <<>>
    /\ traj_group' = None
    /\ traj_positioners' = None
    /\ linear_template' = NoAttr
    /\ conn' = [conn EXCEPT !.sid = <<>>, !.groups = {}, !.stages = {},
                            !.connects = 0]
    /\ xps' = [xps EXCEPT !.errorcodes = <<>>, !.socketId = <<>>]
    /\ hist' = NoHist
    /\ UNCHANGED <<firmware_version, waiting, file, dev_npoints>>

\* a call of the decorated set_trajectory_group on a session that __init__
\* has built
set_trajectory_group_guarded(group) ==
    /\ ~(call.op = "__init__" /\ outcome.kind # "returned")
    /\ Enter("set_trajectory_group", "guard", [InitLoc EXCEPT !.name = group])
    /\ conn' = [conn EXCEPT !.connects = 0]
    /\ hist' = NoHist
    /\ UNCHANGED <<session, trajectories, traj_group, traj_positioners,
                   firmware_version, linear_template, waiting, xps, file,
                   dev_npoints>>

\* wrapper: connect() first when the session is not connected or knows no
\* group or no stage, then the decorated method
withConnectedXPS ==
    /\ pc = "guard"
    /\ IF NotConnected
       THEN pc' = "cn_open" /\ stack' = <<"guard_body">> \o stack
       ELSE pc' = "stg_check" /\ UNCHANGED stack
    /\ UNCHANGED <<session, loc, outcome, call, sent, trajectories, config,
                   waiting, xps, file, dev_npoints, hist>>

\* wrapper: return fcn(self, *args) after connect() has returned.  The
\* arguments are those of the call: the group of the caller for the
\* outermost one, pvtgroups[0] for a call by read_systemini
withConnectedXPS_body ==
    /\ pc = "guard_body"
    /\ pc' = "stg_check"
    /\ loc' = [loc EXCEPT !.name =
                  IF stack = <<>> THEN call.name
                  ELSE CHOOSE g \in PvtGroups(conn.ini) : TRUE]
    /\ UNCHANGED <<session, stack, outcome, call, sent, trajectories, config,
                   waiting, xps, file, dev_npoints, hist>>

\* self._sid = self._xps.TCP_ConnectToServer(host, port, timeout)
connect_open ==
    /\ pc = "cn_open"
    /\ \E connected \in BOOLEAN :
         /\ xps' = ConnectToServer(connected, 0).xps
         /\ sent' = sent \o ConnectToServer(connected, 0).sent
         /\ conn' = [conn EXCEPT !.sid = ConnectToServer(connected, 0).ret,
                                 !.connects = @ + 1]
    /\ pc' = "cn_login"
    /\ UNCHANGED <<session, stack, loc, outcome, call, trajectories,
                   traj_group, traj_positioners, firmware_version,
                   linear_template, waiting, file, dev_npoints, hist>>

\* Login, which raises for a socket id that is not in use, then the version
\* queries
connect_login ==
    /\ pc = "cn_login"
    /\ xps' = [xps EXCEPT !.socketId = conn.sid]
    /\ IF InvalidSocket(conn.sid[1])
       THEN Raise("XPSException") /\ UNCHANGED sent
       ELSE /\ sent' = sent \o <<Cmd("Login", conn.sid),
                                  Cmd("FirmwareVersionGet", conn.sid),
                                  Cmd("InstallerVersionGet", conn.sid)>>
            /\ pc' = "rs_read"
            /\ UNCHANGED <<stack, loc, outcome>>
    /\ UNCHANGED <<session, call, trajectories, config, waiting, file,
                   dev_npoints, hist>>

\* read_systemini up to the call of set_trajectory_group: self.groups and
\* self.stages from the file, and the call when there is one pvt group
read_systemini ==
    /\ pc = "rs_read"
    /\ conn' = [conn EXCEPT !.groups = conn.ini.groups, !.stages = conn.ini.stages]
    /\ IF Cardinality(PvtGroups(conn.ini)) = 1
       THEN /\ pc' = "guard"
            /\ stack' = <<"rs_stages">> \o stack
            /\ loc' = [loc EXCEPT !.name = CHOOSE g \in PvtGroups(conn.ini) : TRUE,
                                  !.reenable = FALSE]
       ELSE /\ pc' = "rs_stages"
            /\ UNCHANGED <<stack, loc>>
    /\ UNCHANGED <<session, outcome, call, sent, trajectories, traj_group,
                   traj_positioners, firmware_version, linear_template, waiting,
                   xps, file, dev_npoints, hist>>

\* the loop over self.stages; read_systemini and connect return
read_systemini_stages ==
    /\ pc = "rs_stages"
    /\ sent' = sent \o StageQueries(1, conn.stages)
    /\ Return(<<>>, loc)
    /\ UNCHANGED <<session, call, trajectories, config, waiting, xps, file,
                   dev_npoints, hist>>

\* the session as __init__ has it before it calls connect()
ConnectInit ==
    /\ traj_state = IDLE
    /\ traj_file = NoAttr
    /\ nsegments = -1
    /\ gather_titles = NoAttr
    /\ trajectories = <<>>
    /\ traj_group = None
    /\ traj_positioners = None
    /\ firmware_version = "XPS-D"
    /\ linear_template = NoAttr
    /\ \E ini \in Inis :
         conn = [sid |-> <<>>, groups |-> {}, stages |-> {}, ini |-> ini,
                 connects |-> 0]
    /\ waiting = <<>>
    /\ xps = NewXPS
    /\ pc = "ready"
    /\ stack = <<>>
    /\ loc = InitLoc
    /\ call = [op |-> "__init__", name |-> None, save |-> FALSE,
               move_to_start |-> FALSE, set_idle_when_done |-> FALSE,
               from |-> IDLE]
    /\ outcome = Pending
    /\ sent = <<>>
    /\ file = <<>>
    /\ dev_npoints = 0
    /\ hist = [phase |-> "other", ok |-> TRUE, log |-> <<IDLE>>, faults |-> 0,
               budget |-> 0, armed |-> "never", first |-> 0, conf |-> NoAttr]

ConnectNext ==
    \/ NewportXPS_init
    \/ \E group \in GroupArgs \ {None} : set_trajectory_group_guarded(group)
    \/ withConnectedXPS
    \/ withConnectedXPS_body
    \/ connect_open
    \/ connect_login
    \/ read_systemini
    \/ read_systemini_stages
    \/ set_trajectory_group_check
    \/ set_trajectory_group_events

ConnectSpec == ConnectInit /\ [][ConnectNext]_vars

\* ------------------------------------------------------------------
\* Properties
\* ------------------------------------------------------------------

\* the commands sent so far by the running (or last) call
SentCmds == {sent[k].cmd : k \in 1..Len(sent)}

\* the last n values of the traj_state log are exactly tail
LogEndsWith(tail) ==
    /\ Len(hist.log) >= Len(tail)
    /\ SubSeq(hist.log, Len(hist.log) - Len(tail) + 1, Len(hist.log)) = tail

IsPrefix(a, b) ==
    /\ Len(a) <= Len(b)
    /\ \A k \in 1..Len(a) : a[k] = b[k]

Finished == pc = "ready" /\ outcome.kind # "pending"

EventAndExecCmds == {"EventExtendedConfigurationTriggerSet",
                     "EventExtendedConfigurationActionSet",
                     "EventExtendedStart",
                     "MultipleAxesPVTExecution"}

\* ---- C1 ----

ArmRunOrder == <<IDLE, ARMING, ARMED, RUNNING, COMPLETE>>

\* C2: from IDLE, arm_trajectory and then run_trajectory of an uploaded
\* trajectory with every device call succeeding take traj_state through
\* IDLE, ARMING, ARMED, RUNNING, COMPLETE in exactly that order: arming
\* returns with the log IDLE, ARMING, ARMED, and the run reaches its end of
\* execution with the log IDLE, ARMING, ARMED, RUNNING, COMPLETE.
C2_ArmThenRunOrder ==
    (/\ hist.phase \in {"arm", "run"}
     /\ hist.ok
     /\ hist.log[1] = IDLE
     /\ (hist.phase = "arm" => ~NotArmable(call.name))) =>
        /\ outcome.kind # "raised"
        /\ IF Len(hist.log) <= Len(ArmRunOrder)
             THEN IsPrefix(hist.log, ArmRunOrder)
             ELSE IsPrefix(ArmRunOrder, hist.log)
        /\ (hist.phase = "arm" /\ Finished =>
                hist.log = SubSeq(ArmRunOrder, 1, 3) /\ traj_state = ARMED)
        /\ (hist.phase = "run" /\ pc = "run_check" =>
                hist.log = SubSeq(ArmRunOrder, 1, 3))
        /\ (hist.phase = "run" /\ pc = "run_exec" =>
                hist.log = SubSeq(ArmRunOrder, 1, 4))
        /\ (hist.phase = "run" /\ pc = "run_save" =>
                hist.log = ArmRunOrder /\ traj_state = COMPLETE)

\* an armed run has just completed its execution without a failed command
C2_Witness ==
    /\ hist.phase = "run"
    /\ hist.ok
    /\ pc = "run_save"
    /\ hist.log = ArmRunOrder
    /\ traj_state = COMPLETE
    /\ "MultipleAxesPVTExecution" \in SentCmds

\* ---- C3 ----

ClaimedEdges == {<<IDLE, ARMING>>, <<ARMING, ARMED>>, <<ARMED, RUNNING>>,
                 <<RUNNING, COMPLETE>>, <<COMPLETE, IDLE>>,
                 <<COMPLETE, WRITING>>, <<WRITING, IDLE>>}

\* C3 as the specification states it: every change of traj_state is one of
\* IDLE->ARMING, ARMING->ARMED, ARMED->RUNNING, RUNNING->COMPLETE,
\* COMPLETE->IDLE, COMPLETE->WRITING, WRITING->IDLE; arming starts only from
\* IDLE.
C3_OnlyClaimedEdges ==
    [][traj_state' # traj_state => <<traj_state, traj_state'>> \in ClaimedEdges]_vars

\* the states a call can leave the session in
RestStates == {IDLE, ARMING, ARMED, READING, WRITING}

ActualEdges ==
    {<<ARMING, ARMED>>, <<ARMED, RUNNING>>, <<RUNNING, COMPLETE>>,
     <<COMPLETE, IDLE>>, <<COMPLETE, READING>>, <<READING, IDLE>>,
     <<WRITING, IDLE>>}
    \cup (RestStates \X {ARMING, READING, WRITING})

\* C3, amended: ARMED is entered only from ARMING, RUNNING only from ARMED,
\* COMPLETE only from RUNNING and IDLE only from COMPLETE, READING or WRITING;
\* ARMING, READING and WRITING are entered from whichever of IDLE, ARMING,
\* ARMED, READING, WRITING the session rests in when arm_trajectory,
\* read_gathering or save_gathering_file is called, and READING also from
\* COMPLETE. A run never goes from COMPLETE to WRITING directly.
C3_OnlyActualEdges ==
    [][traj_state' # traj_state => <<traj_state, traj_state'>> \in ActualEdges]_vars

\* arm_trajectory has set ARMING in a session that was ARMED
C3_Witness ==
    /\ call.op = "arm_trajectory"
    /\ call.from = ARMED
    /\ traj_state = ARMING
    /\ hist.log = <<ARMED, ARMING>>

\* ---- C4 ----

\* C4: arm_trajectory of a registered trajectory whose uploaded flag is false
\* raises before anything else happens: the step that finds the flag false
\* ends the call with an error, sends no command, and leaves traj_state,
\* traj_file, nsegments and gather_titles as they were.
C4_UnuploadedArmChangesNothing ==
    [][(/\ pc = "arm_check"
        /\ call.op = "arm_trajectory"
        /\ loc.name \in DOMAIN trajectories
        /\ ~trajectories[loc.name].uploaded)
       => (/\ pc' = "ready"
           /\ outcome'.kind = "raised"
           /\ outcome'.exc = "XPSException"
           /\ sent' = <<>>
           /\ session' = session)]_vars

\* arm_trajectory has refused a registered trajectory that is not uploaded
C4_Witness ==
    /\ Finished
    /\ call.op = "arm_trajectory"
    /\ call.name \in DOMAIN trajectories
    /\ ~trajectories[call.name].uploaded
    /\ outcome.kind = "raised"
    /\ sent = <<>>
    /\ traj_state = call.from

\* ---- C5 ----

\* arm_trajectory ended with GatheringReset or GatheringConfigurationSet
\* answering a nonzero error code
ArmFailedAtGathering ==
    /\ Finished
    /\ call.op = "arm_trajectory"
    /\ hist.faults > 0
    /\ sent # <<>>
    /\ sent[Len(sent)].cmd \in {"GatheringReset", "GatheringConfigurationSet"}

\* C5 as the specification states it: when GatheringReset or
\* GatheringConfigurationSet answers a nonzero error code, arm_trajectory
\* raises a device error, sends no pulse-output or verification command, and
\* traj_state is IDLE afterwards.
C5_FatalArmFailureLeavesIdle ==
    ArmFailedAtGathering =>
        /\ outcome.kind = "raised"
        /\ outcome.exc = "XPSException"
        /\ SentCmds \cap {"MultipleAxesPVTPulseOutputSet",
                          "MultipleAxesPVTVerification"} = {}
        /\ traj_state = IDLE

\* ---- C6 ----

\* C6: once arm_trajectory has sent MultipleAxesPVTPulseOutputSet, it also
\* sends MultipleAxesPVTVerification and returns with traj_state ARMED,
\* whatever error codes the two commands answer.
C6_PulseAndVerifyErrorsIgnored ==
    (/\ Finished
     /\ call.op = "arm_trajectory"
     /\ "MultipleAxesPVTPulseOutputSet" \in SentCmds) =>
        /\ outcome.kind = "returned"
        /\ traj_state = ARMED
        /\ sent[Len(sent)].cmd = "MultipleAxesPVTVerification"

\* arm_trajectory returned ARMED although both commands answered an error
C6_Witness ==
    /\ Finished
    /\ call.op = "arm_trajectory"
    /\ outcome.kind = "returned"
    /\ traj_state = ARMED
    /\ hist.faults = 2
    /\ sent[Len(sent)].cmd = "MultipleAxesPVTVerification"

\* ---- C7 ----

GatheringQueries == {"GatheringCurrentNumberGet", "GatheringDataMultipleLinesGet"}

RunReturned == Finished /\ call.op = "run_trajectory" /\ outcome.kind = "returned"

\* C7 as the specification states it, here for a controller that answers
\* every command without error: a run_trajectory that returns with save true
\* has read the gathering and passed through WRITING between COMPLETE and
\* IDLE, and the file holds the titles and the rows; with save false it went
\* from COMPLETE to IDLE directly and sent no gathering query.
C7_SaveAlwaysWrites ==
    (RunReturned /\ hist.faults = 0) =>
        IF call.save
        THEN /\ \/ LogEndsWith(<<COMPLETE, READING, WRITING, IDLE>>)
                \/ LogEndsWith(<<COMPLETE, WRITING, IDLE>>)
             /\ "GatheringCurrentNumberGet" \in SentCmds
             /\ Len(file) = 2
             /\ file[1] = gather_titles
        ELSE /\ LogEndsWith(<<COMPLETE, IDLE>>)
             /\ SentCmds \cap GatheringQueries = {}

\* C7, amended: a run_trajectory that returns with save true went from
\* COMPLETE to READING; when the gathering read fetched rows it went on to
\* WRITING and then IDLE and the file holds the titles and the rows; when the
\* count poll timed out (zero rows) it went from READING to IDLE without
\* WRITING.  The file changes only in the step that sets WRITING.  With save
\* false the run went from COMPLETE to IDLE directly and sent no gathering
\* query.
C7_SaveWritesWhenRowsRead ==
    /\ [](RunReturned =>
            IF ~call.save
            THEN /\ LogEndsWith(<<COMPLETE, IDLE>>)
                 /\ SentCmds \cap GatheringQueries = {}
            ELSE IF "GatheringDataMultipleLinesGet" \in SentCmds
            THEN /\ LogEndsWith(<<COMPLETE, READING, WRITING, IDLE>>)
                 /\ Len(file) = 2
                 /\ file[1] = gather_titles
            ELSE /\ LogEndsWith(<<COMPLETE, READING, IDLE>>)
                 /\ sent[Len(sent)].cmd = "GatheringCurrentNumberGet")
    /\ [][file' # file => traj_state' = WRITING]_vars

\* a run with save true has read rows, written the file and returned
C7_Witness ==
    /\ RunReturned
    /\ call.save
    /\ LogEndsWith(<<COMPLETE, READING, WRITING, IDLE>>)
    /\ "GatheringDataMultipleLinesGet" \in SentCmds
    /\ Len(file) = 2
    /\ file[2] # <<>>

\* ---- C8 ----

\* C8: MultipleAxesPVTExecution is only sent while an arming is unused: the
\* session is ARMED only when arm_trajectory has completed since the last
\* execution command (or none was sent yet), run_trajectory gets past its
\* check only in an ARMED session, and it is about to send the execution
\* command only with such an arming.
C8_ExecutionNeedsFreshArm ==
    /\ (traj_state = ARMED => hist.armed = "fresh")
    /\ (pc \in {"run_action", "run_start"} => traj_state = ARMED)
    /\ (pc = "run_exec" => hist.armed = "fresh")

\* after an execution, a run_trajectory without a re-arm was refused
C8_Witness ==
    /\ Finished
    /\ call.op = "run_trajectory"
    /\ hist.armed = "spent"
    /\ call.from = IDLE
    /\ outcome.kind = "raised"
    /\ outcome.exc = "XPSException"
    /\ SentCmds \cap EventAndExecCmds = {}

\* ---- C9 ----

RunCmdOrder == <<"EventExtendedConfigurationTriggerSet",
                 "EventExtendedConfigurationActionSet",
                 "EventExtendedStart",
                 "MultipleAxesPVTExecution",
                 "EventExtendedRemove",
                 "GatheringStop">>

\* C9 as the specification states it: when run_trajectory has set COMPLETE,
\* its last six commands are the trigger, the action, the event start, the
\* execution, the event removal and the gathering stop, and -- the event
\* start having answered without error -- the removal names the identifier
\* the device returned from the event start.
C9_RemovesStartedEvent ==
    (pc = "run_save" /\ loc.eventID = 0) =>
        LET n == Len(sent)
        IN  /\ n >= 6
            /\ [k \in 1..6 |-> sent[n - 6 + k].cmd] = RunCmdOrder
            /\ traj_state = COMPLETE
            /\ sent[n - 1].args = <<loc.m>>

\* ---- C10 ----

\* read_gathering ended with every count query answered, each with a count
\* below 1
CountStayedBelowOne ==
    /\ Finished
    /\ call.op = "read_gathering"
    /\ hist.faults = 0
    /\ dev_npoints < 1

DataReads == {k \in 1..Len(sent) : sent[k].cmd = "GatheringDataMultipleLinesGet"}

\* the position of the bulk read
BulkIndex == CHOOSE k \in DataReads : \A j \in DataReads : k <= j

\* the bulk read and the first-chunk reads for 3, 5, 7 and 9 chunks have all
\* failed
ChunkCountsExhausted ==
    /\ call.op = "read_gathering"
    /\ hist.first = 0
    /\ Cardinality(DataReads) >= 5
    /\ hist.faults >= 5

\* C11 as the specification states it: when the bulk read and the first-chunk
\* read for every chunk count up to 9 have failed, read_gathering raises; it
\* sends no further chunk read and returns no buffer.
C11_ExhaustedChunksRaise ==
    ChunkCountsExhausted =>
        /\ Finished
        /\ outcome.kind = "raised"
        /\ Cardinality(DataReads) = 5

\* ---- C12 ----

\* the chunk reads that failed after a first chunk read was accepted
LateFaults == hist.faults - (hist.first - BulkIndex)

\* C12: once a first-chunk read has succeeded, the row ranges requested from
\* that read on are contiguous from row 0 in the order sent -- each starts
\* where the one before ended, none has a negative length -- and when
\* read_gathering returns they end at the polled count, which is the count it
\* returns; when none of these reads failed, the returned text is that of
\* rows 0..count-1, each once.
C12_ChunksCoverRows ==
    (call.op = "read_gathering" /\ hist.first > 0) =>
        LET n      == Len(sent) - hist.first + 1
            req(k) == sent[hist.first + k - 1].args
        IN  /\ req(1)[1] = 0
            /\ \A k \in 2..n : req(k)[1] = req(k - 1)[1] + req(k - 1)[2]
            /\ \A k \in 1..n : req(k)[2] >= 0
            /\ Finished =>
                 /\ outcome.kind = "returned"
                 /\ outcome.val[1] = dev_npoints
                 /\ req(n)[1] + req(n)[2] = dev_npoints
                 /\ (LateFaults = 0 =>
                        outcome.val[2] = CleanBuffer(DevRows(0, dev_npoints)))

\* the reads for 3, 5 and 7 chunks failed, the one for 9 chunks succeeded, and
\* read_gathering returned all rows of a full controller
C12_Witness ==
    /\ Finished
    /\ call.op = "read_gathering"
    /\ hist.first > 0
    /\ hist.first - BulkIndex = 4
    /\ hist.faults = 4
    /\ dev_npoints = MaxRows
    /\ Len(sent) - hist.first + 1 = 10
    /\ sent[hist.first].args[2] > 0
    /\ outcome.val = <<MaxRows, CleanBuffer(DevRows(0, MaxRows))>>

\* ---- C13 ----

\* C13 as the specification states it: read_gathering returns the zero-sample
\* result only when the count poll timed out (no data read was sent), returns
\* (N, text) with N >= 1 only with the text of all N rows, and raises for
\* every other failure.
C13_ThreeOutcomes ==
    (Finished /\ call.op = "read_gathering" /\ outcome.kind = "returned") =>
        IF outcome.val[1] < 1
        THEN outcome.val[1] = 0 /\ DataReads = {}
        ELSE outcome.val[2] = CleanBuffer(DevRows(0, outcome.val[1]))

\* ---- C14 ----

\* C14: whenever define_line_trajectories has registered the pair, the start
\* of 'backward' is the stop of 'foreward' and the stop of 'backward' is the
\* start of 'foreward', the same number.
C14_BackwardMirrorsForward ==
    (call.op = "define_line_trajectories" /\ "backward" \in DOMAIN trajectories) =>
        LET fore == trajectories["foreward"]
            back == trajectories["backward"]
        IN  /\ Len(back.start) = 1 /\ Len(back.stop) = 1
            /\ back.start[1] = <<fore.stop[1]>>
            /\ <<back.stop[1]>> = fore.start[1]

\* a pair is registered whose two ends differ
C14_Witness ==
    /\ Finished
    /\ call.op = "define_line_trajectories"
    /\ outcome.kind = "returned"
    /\ "backward" \in DOMAIN trajectories
    /\ trajectories["foreward"].start[1] # <<trajectories["foreward"].stop[1]>>
    /\ trajectories["backward"].start[1] = <<trajectories["foreward"].stop[1]>>

\* ---- C15 ----

\* the positions in sent of the upload of the named trajectory file
Uploads(fname) ==
    {k \in 1..Len(sent) :
        sent[k].cmd = "upload_trajectory" /\ sent[k].args[1] = fname}

\* C15 as the specification states it: for every input the velocity put into
\* the forward trajectory is at most 0.75 of the axis' max_velo and the ramp
\* acceleration, velocity divided by ramp time, at most 0.5 of its max_accel.
C15_LineWithinCaps ==
    \A k \in Uploads("foreward.trj") :
        LET fore  == sent[k].args[2]
            axis  == call.name
            stage == <<traj_group, axis>>
            velo  == fore[<<axis, "velo">>]
            ramp  == FDiv(velo, fore[<<"", "ramptime">>])
        IN  /\ ~FLess(FMul(<<3, 4>>, StageMaxVelo(stage)), velo)
            /\ ~FLess(FMul(<<1, 2>>, StageMaxAccel(stage)), ramp)

\* ---- C16 ----

\* C16: in the values define_line_trajectories fills the two trajectory files
\* with, the backward velocity, ramp distance and distance of the scanned axis
\* are the negated forward ones, its start and stop are the forward stop and
\* start, ramp time and scan time are the same, and every other positioner of
\* the group has velocity, ramp distance and distance 0 in both.
C16_BackwardNegatesForward ==
    \A k \in Uploads("backward.trj") :
        LET fore == sent[k - 1].args[2]
            back == sent[k].args[2]
            axis == call.name
        IN  /\ sent[k - 1].args[1] = "foreward.trj"
            /\ DOMAIN back = DOMAIN fore
            /\ \A attr \in {"velo", "ramp", "dist"} :
                 back[<<axis, attr>>] = FNeg(fore[<<axis, attr>>])
            /\ back[<<axis, "start">>] = fore[<<axis, "stop">>]
            /\ back[<<axis, "stop">>] = fore[<<axis, "start">>]
            /\ back[<<"", "ramptime">>] = fore[<<"", "ramptime">>]
            /\ back[<<"", "scantime">>] = fore[<<"", "scantime">>]
            /\ \A i \in 1..Len(traj_positioners) :
                 traj_positioners[i] # axis =>
                    \A attr \in {"velo", "ramp", "dist"} :
                       /\ fore[<<traj_positioners[i], attr>>] = Zero
                       /\ back[<<traj_positioners[i], attr>>] = Zero

\* both files were sent for a scan of Y that moves
C16_Witness ==
    /\ Finished
    /\ call.op = "define_line_trajectories"
    /\ call.name = "Y"
    /\ outcome.kind = "returned"
    /\ Uploads("backward.trj") # {}
    /\ \A k \in Uploads("backward.trj") :
         /\ FLess(Zero, sent[k - 1].args[2][<<"Y", "velo">>])
         /\ FLess(sent[k].args[2][<<"Y", "velo">>], Zero)
         /\ sent[k].args[2][<<"X", "velo">>] = Zero

\* ---- C17 ----

\* a define_array_trajectory call has ended
ArrayFinished == call.op = "define_array_trajectory" /\ pc = "ready"

\* the arguments that the specification wants refused: dtime not above 0, no
\* axis, an axis that is not in the trajectory group, lists of different length
RefusedInput(a) ==
    \/ ~FLess(Zero, a.dtime)
    \/ DOMAIN a.positions = {}
    \/ \E key \in DOMAIN a.positions : ~InList(StripGroup(key), traj_positioners)
    \/ Cardinality(Lengths(a.positions)) > 1

\* C17 as the specification states it: a define_array_trajectory call with
\* dtime not above 0, without an axis, with an axis outside the trajectory
\* group or with lists of different length ends by raising, with the registry
\* as it was before the call and nothing uploaded.
C17_RefusedInputRaises ==
    ArrayFinished /\ RefusedInput(call.args) =>
        /\ outcome.kind = "raised"
        /\ trajectories = call.registry
        /\ "upload_trajectory" \notin SentCmds

\* a call with a negative dtime ended with its trajectory registered and
\* uploaded, the segment time being the magnitude of dtime
C17_NegativeTimeRegistered ==
    /\ ArrayFinished
    /\ FLess(call.args.dtime, Zero)
    /\ outcome.kind = "returned"
    /\ "array" \in DOMAIN trajectories
    /\ trajectories["array"].uploaded
    /\ trajectories["array"].pixeltime = FNeg(call.args.dtime)
    /\ trajectories # call.registry
    /\ "upload_trajectory" \in SentCmds

\* ---- C18 ----

\* the acceleration cap of an axis: the smaller of its override and its maximum
AccelCap(a, axis) ==
    LET maxa == StageMaxAccel(<<traj_group, axis>>)
    IN  IF axis \in DOMAIN a.max_accels /\ FLess(a.max_accels[axis], maxa)
        THEN a.max_accels[axis] ELSE maxa

\* the i-th axis of the group is in positions with at least two points and one
\* of its velocities or accelerations is above its cap
ExceedsCap(a, i) ==
    LET axis == traj_positioners[i]
        maxv == StageMaxVelo(<<traj_group, axis>>)
    IN  /\ axis \in DOMAIN a.positions
        /\ Len(a.positions[axis]) >= 2
        /\ LET nums == MovedAxis(a.positions[axis], FAbs(a.dtime), maxv,
                                 AccelCap(a, axis))
           IN  \/ \E n \in 1..Len(nums.velo) : FLess(maxv, FAbs(nums.velo[n]))
               \/ \E n \in 1..Len(nums.accel) :
                     FLess(AccelCap(a, axis), FAbs(nums.accel[n]))

\* C18: a define_array_trajectory call whose positions pass the input check
\* and in which some axis of the group has a velocity above its max_velo or an
\* acceleration above the smaller of its override and its max_accel ends with
\* a ValueError, with nothing uploaded and the registry as it was before the
\* call, whichever axis it is.
C18_CapViolationRejects ==
    /\ ArrayFinished
    /\ InputOk(call.args.positions)
    /\ \E i \in 1..Len(traj_positioners) : ExceedsCap(call.args, i)
    => /\ outcome.kind = "raised"
       /\ outcome.exc = "ValueError"
       /\ trajectories = call.registry
       /\ "upload_trajectory" \notin SentCmds

\* a call that was to upload, on a session with a trajectory registered, was
\* rejected for the second axis of the group, the first one being within its caps
C18_Witness ==
    /\ ArrayFinished
    /\ call.args.upload
    /\ call.registry # <<>>
    /\ DOMAIN call.args.positions = {"X", "Y"}
    /\ ~ExceedsCap(call.args, 1)
    /\ ExceedsCap(call.args, 2)
    /\ outcome.exc = "ValueError"
    /\ trajectories = call.registry

\* ---- C19 ----

\* the define_array_trajectory call has returned the trajectory it registered
ArrayRegistered ==
    /\ ArrayFinished
    /\ outcome.kind = "returned"
    /\ outcome.val # NoAttr
    /\ "array" \in DOMAIN trajectories
    /\ trajectories["array"] = outcome.val[1]

ZeroText == [neg |-> FALSE, int |-> 0, frac |-> 0]

\* C20: in the trajectory that a define_array_trajectory call registers, the
\* last line of the buffer has velocity 0 for every axis of the group, and an
\* axis of the group that is not a key of positions has displacement 0 and
\* velocity 0 in every line and None as its start position.
C20_EndsAtRestAndHeldAxesStay ==
    ArrayRegistered =>
        LET traj == trajectories["array"]
            buff == traj.pvt_buffer
        IN  \A i \in 1..Len(traj.axes) :
                /\ buff[Len(buff)][1 + 2 * i] = ZeroText
                /\ traj.axes[i] \notin DOMAIN call.args.positions =>
                      /\ traj.start[i] = NoAttr
                      /\ \A r \in 2..Len(buff) :
                           /\ buff[r][2 * i] = ZeroText
                           /\ buff[r][1 + 2 * i] = ZeroText

\* a trajectory was registered in which X moves, with velocity 0.75 in its
\* second segment, and Y is not in positions
C20_Witness ==
    /\ ArrayRegistered
    /\ DOMAIN call.args.positions = {"X"}
    /\ trajectories["array"].start[1] # NoAttr
    /\ trajectories["array"].start[2] = NoAttr
    /\ trajectories["array"].pvt_buffer[3][3] =
         [neg |-> FALSE, int |-> 0, frac |-> 75000000]
    /\ trajectories["array"].pvt_buffer[6][3] = ZeroText

\* ---- C29 ----

\* the steps of read_gathering that read data
DataSteps == {"rg_bulk", "rg_first", "rg_chunks", "rg_last"}

\* C29 as the specification states it: read_gathering reads data only after a
\* count query that succeeded with a count of at least 1, and a count query
\* that reports a device error is only polled again: read_gathering does not
\* raise for it, it ends by returning.
C29_FailedQueryIsPolledAgain ==
    call.op = "read_gathering" =>
        /\ pc \in DataSteps => loc.npulses >= 1 /\ loc.npulses = dev_npoints
        /\ Finished => outcome.kind = "returned"

\* ---- C30 ----

\* (count - 2) / chunks rounded down, and rounded toward zero
FloorSize(count, chunks) == (count - 2) \div chunks
TruncSize(count, chunks) ==
    IF count >= 2 THEN (count - 2) \div chunks ELSE -((2 - count) \div chunks)

\* the first-chunk reads sent so far: up to the accepted one if there is one,
\* else all data reads after the bulk read while the escalation runs, else the
\* four that failed
FirstChunkAttempts ==
    IF hist.first > 0 THEN hist.first - BulkIndex
    ELSE IF pc = "rg_first" THEN Cardinality(DataReads) - 1
    ELSE IF Cardinality(DataReads) > 1 THEN 4
    ELSE 0

\* the first-chunk reads follow the bulk read, the j-th asks for the rows from
\* 0 on of one chunk out of 2j+1, there are at most four, all but an accepted
\* one have failed, the escalation goes on only after a failure and is then
\* about to ask for one chunk out of the next odd count, and it is over after
\* the read for 9
EscalationFollows(Size(_, _)) ==
    (call.op = "read_gathering" /\ DataReads # {}) =>
        LET n == FirstChunkAttempts
        IN  /\ n <= 4
            /\ BulkIndex + n <= Len(sent)
            /\ \A j \in 1..n :
                 sent[BulkIndex + j] =
                    Cmd("GatheringDataMultipleLinesGet",
                        <<0, Size(dev_npoints, 2 * j + 1)>>)
            /\ hist.faults >= (IF hist.first > 0 THEN n ELSE n + 1) \/ n = 0
            /\ pc = "rg_first" =>
                 /\ hist.first = 0
                 /\ n < 4
                 /\ loc.nchunks = 2 * n + 3
                 /\ loc.nx = Size(dev_npoints, loc.nchunks)
            /\ (hist.first = 0 /\ pc # "rg_first") =>
                 Cardinality(DataReads) = 1 \/ Cardinality(DataReads) >= 5

\* C30 as the specification states it: after a failed bulk read the first-chunk
\* reads are tried for 3, 5, 7, 9 chunks in that order and no others, each with
\* the chunk size floor((count-2)/chunks); the first success ends them, and
\* there are at most 4.
C30_EscalationWithFloor == EscalationFollows(FloorSize)

\* C30, amended: after a failed bulk read the first-chunk reads are tried for
\* 3, 5, 7, 9 chunks in that order and no others, each with the chunk size
\* int((count-2)/chunks), which rounds toward zero (0, not -1, for a count of
\* 1); the first success ends them, and there are at most 4.
C30_EscalationWithTruncation == EscalationFollows(TruncSize)

\* the bulk read and the reads for 3, 5 and 7 chunks failed; the one for 9
\* chunks was sent
C30_Witness ==
    /\ call.op = "read_gathering"
    /\ DataReads # {}
    /\ FirstChunkAttempts = 4
    /\ dev_npoints = MaxRows
    /\ sent[BulkIndex + 4].args = <<0, 1>>
    /\ sent[BulkIndex + 1].args = <<0, 3>>

\* ---- C21 ----

\* the groups of system.ini that hold several axes
MultipleGroups == {g \in GroupNames : groups[g].category = "MultipleAxesInUse"}

C22_AxesBelongToGroup ==
    /\ \A n \in DOMAIN trajectories :
         \A i \in 1..Len(trajectories[n].axes) :
            traj_group # None /\ InList(trajectories[n].axes[i], traj_positioners)
    /\ \A k \in 1..Len(sent) :
         sent[k].cmd = "GatheringConfigurationSet" =>
            \A j \in 1..Len(sent[k].args) :
               /\ sent[k].args[j][1] = traj_group
               /\ <<sent[k].args[j][1], sent[k].args[j][2]>> \in stages

\* ---- C24 ----

\* the line of column names for the outputs the controller was configured with
ConfiguredNames == <<"#">> \o Join(hist.conf, " ")

LineNames == {"foreward", "backward"}

\* the files that the call has handed to upload_trajectory, in order
UploadedFiles == [k \in 1..Len(sent) |-> sent[k].args[1]]

\* C23: the uploaded flag of a trajectory is true only when the registry is
\* still the one the call found, or when the call has returned after it
\* transferred the files of the trajectory (both files, forward first, for
\* line trajectories; the controller took the file, for an array
\* trajectory).  The two line trajectories carry the same flag in every
\* state.  A call that returns without a transfer, and a call whose transfer
\* failed, leave the flag of what they registered false.
C23_UploadedOnlyAfterTransfer ==
    /\ call.op = "define_line_trajectories" =>
         /\ \A n \in LineNames \cap DOMAIN trajectories :
              trajectories[n].uploaded =>
                 \/ trajectories = call.registry
                 \/ /\ Finished /\ outcome.kind = "returned"
                    /\ UploadedFiles = <<"foreward.trj", "backward.trj">>
         /\ "foreward" \in DOMAIN trajectories =>
              /\ "backward" \in DOMAIN trajectories
              /\ trajectories["foreward"].uploaded = trajectories["backward"].uploaded
         /\ (Finished /\ UploadedFiles # <<"foreward.trj", "backward.trj">>
               /\ trajectories # call.registry) =>
              /\ ~trajectories["foreward"].uploaded
              /\ ~trajectories["backward"].uploaded
         /\ (Finished /\ outcome.kind = "raised" /\ sent # <<>>) =>
              /\ ~trajectories["foreward"].uploaded
              /\ ~trajectories["backward"].uploaded
    /\ call.op = "define_array_trajectory" =>
         /\ ("array" \in DOMAIN trajectories /\ trajectories["array"].uploaded) =>
              \/ trajectories = call.registry
              \/ /\ Finished /\ outcome.kind = "returned"
                 /\ UploadedFiles = <<"array.trj">>
                 /\ hist.ok
         /\ (Finished /\ outcome.kind = "returned" /\ outcome.val # NoAttr
               /\ (sent = <<>> \/ ~hist.ok)) =>
              ~trajectories["array"].uploaded

\* a define_line_trajectories that found two uploaded trajectories has
\* registered them anew and failed to transfer the second file
C23_Witness ==
    /\ Finished
    /\ call.op = "define_line_trajectories"
    /\ call.registry = EarlierLines
    /\ outcome.kind = "raised"
    /\ UploadedFiles = <<"foreward.trj", "backward.trj">>
    /\ ~trajectories["foreward"].uploaded
    /\ ~trajectories["backward"].uploaded

\* a define_array_trajectory that found an uploaded trajectory has registered
\* a new one whose transfer failed
C23_ArrayTransferFailed ==
    /\ Finished
    /\ call.op = "define_array_trajectory"
    /\ call.registry # <<>>
    /\ UploadedFiles = <<"array.trj">>
    /\ ~hist.ok
    /\ ~trajectories["array"].uploaded

\* ---- C27 ----

\* the description that the controller's error list gives a code, as text
ListedDescription(err) ==
    CASE err = 0 -> <<"Successful command">>
      [] err = -2 -> <<"TCP timeout">>
      [] err = -17 -> <<"Parameter out of range", ":", " ", "check">>
      [] OTHER -> <<"unknown error">>

\* C27: check_error returns for code 0 and, with with_raise false, for every
\* code; for a nonzero code with with_raise true it raises XPSException with
\* the message, the description and the code, where the description is the
\* one the controller's error list gives the code if the list was read at
\* connection time and holds the code, and 'unknown error' otherwise.  It
\* changes nothing and sends nothing.  A connection that read the list has
\* filled the catalog with its three codes.
C27_CheckErrorResolvesCatalog ==
    /\ [](call.op = "check_error" =>
            LET err        == call.args[1]
                with_raise == call.args[3]
            IN  IF err = 0 \/ ~with_raise
                THEN outcome = Returned(<<>>)
                ELSE /\ outcome.kind = "raised"
                     /\ outcome.exc = "XPSException"
                     /\ outcome.val =
                          <<call.args[2],
                            IF xps.errorcodes = <<>> THEN <<"unknown error">>
                            ELSE ListedDescription(err),
                            ToString(err)>>)
    /\ [][call'.op = "check_error" =>
            UNCHANGED <<xps, session, trajectories, config, file>> /\ sent' = <<>>]_vars
    /\ [][(call'.op = "TCP_ConnectToServer" /\ sent' # <<>>) =>
            IF \E s \in SocketIds : xps'.socketId = <<s>> /\ outcome'.val = <<s>>
            THEN DOMAIN xps'.errorcodes \in {{}, {<<"0">>, <<"-2">>, <<"-17">>}}
            ELSE FALSE]_vars

\* check_error(-17, 'Move', True) has raised with the description of the list
C27_Witness ==
    /\ call.op = "check_error"
    /\ call.args = <<-17, "Move", TRUE>>
    /\ outcome = Raised("XPSException",
                        <<"Move", <<"Parameter out of range", ":", " ", "check">>, "-17">>)

\* check_error(7, 'Move', True) has raised for a code the list does not hold
C27_UnknownCode ==
    /\ call.op = "check_error"
    /\ call.args = <<7, "Move", TRUE>>
    /\ xps.errorcodes # <<>>
    /\ outcome = Raised("XPSException", <<"Move", <<"unknown error">>, "7">>)

\* ---- C28 ----

\* the socket id that the last Send was sent with
SentWith == xps.socketId[1]

\* C28: a driver command sent with a socket id that is not marked as used
\* (the id given, or the remembered one when none is given) raises
\* XPSException and sends nothing; the command changes no socket and no
\* mark.  An id is unmarked before its first connection and after a
\* TCP_CloseSocket that closed it.
C28_UnusedSocketRaises ==
    /\ []((call.op = "Send" /\ xps.socketId # <<>> /\ UsedSocket(SentWith) = 0) =>
            /\ outcome.kind = "raised"
            /\ outcome.exc = "XPSException"
            /\ sent = <<>>)
    /\ [][call'.op = "Send" =>
            /\ xps'.usedSockets = xps.usedSockets
            /\ xps'.sockets = xps.sockets
            /\ xps'.nbSockets = xps.nbSockets]_vars
    /\ [][(call'.op = "TCP_CloseSocket" /\ xps' # xps) =>
            xps'.usedSockets[call'.args[1]] = 0]_vars
    /\ [](\A s \in SocketIds : xps.sockets[s] \in {"none", "closed"} =>
                                  xps.usedSockets[s] = 0)

\* a command sent with the id of a socket that TCP_CloseSocket has closed
C28_Witness ==
    /\ call.op = "Send"
    /\ call.args = <<0>>
    /\ xps.sockets[0] = "closed"
    /\ xps.usedSockets[0] = 0
    /\ outcome.kind = "raised"
    /\ outcome.exc = "XPSException"
    /\ sent = <<>>

\* a command sent with an id that was never connected
C28_NeverConnected ==
    /\ call.op = "Send"
    /\ call.args = <<1>>
    /\ xps.sockets[1] = "none"
    /\ xps.sockets[0] = "open"
    /\ outcome.exc = "XPSException"

\* ---- C25 ----

\* the steps at which a call has not done anything yet, or is over
AtRest == {"ready", "run_begin", "rg_begin", "ab_send"}

SentCount(cmd) == Cardinality({k \in 1..Len(sent) : sent[k].cmd = cmd})

\* C25 as the specification states it: of two callers on one session, at
\* most one is inside an arm, run or read operation at any time; no command
\* goes out while another caller's command is unanswered; and the session
\* sends at most one MultipleAxesPVTExecution for each arming, the one it
\* starts with and one for each MultipleAxesPVTVerification since.
C25_CallsNeverOverlap ==
    /\ [](waiting # <<>> =>
            \/ "abort_group" \in {call.op, waiting[1].call.op}
            \/ pc \in AtRest
            \/ waiting[1].pc \in AtRest)
    /\ [](SentCount("MultipleAxesPVTExecution")
             <= 1 + SentCount("MultipleAxesPVTVerification"))
    /\ [][(waiting # <<>> /\ waiting[1].pc = "ab_answer") => sent' = sent]_vars

\* both callers of run_trajectory have had the trajectory executed on the
\* one arming the session started with
C25_TwoExecutions ==
    /\ SentCount("MultipleAxesPVTExecution") = 2
    /\ SentCount("MultipleAxesPVTVerification") = 0
    /\ call.op = "run_trajectory"
    /\ waiting[1].call.op = "run_trajectory"
    /\ outcome.kind = "returned"
    /\ waiting[1].outcome.kind = "returned"

\* ---- C26 ----

\* the calls of the two callers
BothCalls == {[call |-> call, pc |-> pc, outcome |-> outcome]} \cup
             {[call |-> waiting[k].call, pc |-> waiting[k].pc,
               outcome |-> waiting[k].outcome] : k \in 1..Len(waiting)}

\* the part of C26 about abort_group alone (a step that leaves call as it is
\* is a step of the caller at the processor): its first step sends one
\* GroupMoveAbort, for the given group when it is configured and else for
\* the trajectory group, and nothing when that is None; neither step changes
\* traj_state, traj_file, the registered trajectories, any other field of
\* the session, the file, or the position and locals of the other caller.
C26_AbortFrame ==
    /\ [][(pc = "ab_send" /\ call' = call) =>
            LET target == IF call.name \in {"FINE", "COARSE", "DET"}
                          THEN call.name ELSE traj_group
            IN  sent' = IF target = None THEN sent
                        ELSE Append(sent, Cmd("GroupMoveAbort", <<target>>))]_vars
    /\ [][(pc \in {"ab_send", "ab_answer"} /\ call' = call) =>
            (UNCHANGED <<session, trajectories, config, file, waiting, xps,
                         dev_npoints>>)]_vars

\* C26 as the specification states it: the frame of abort_group above, and a
\* read_gathering that runs while abort_group is called comes to its end as
\* it would without: it returns.
C26_AbortLeavesReadAlone ==
    /\ C26_AbortFrame
    /\ [](\A c \in BothCalls :
            (c.call.op = "read_gathering" /\ c.pc = "ready") =>
                c.outcome.kind = "returned")

\* a read_gathering has ended with ValueError on the answer to the other
\* caller's GroupMoveAbort
C26_ReadTookAbortAnswer ==
    /\ call.op = "read_gathering"
    /\ outcome = [kind |-> "raised", exc |-> "ValueError", val |-> <<>>]
    /\ traj_state = READING
    /\ waiting[1].call.op = "abort_group"
    /\ waiting[1].pc = "ab_answer"

\* the moves of move_to_trajectory_start for traj: the axes that have a
\* start position, in the order of the axes
RECURSIVE StartMoves(_, _)
StartMoves(traj, i) ==
    IF i > Len(traj.axes) THEN <<>>
    ELSE (IF traj.start[i] = NoAttr THEN <<>>
          ELSE <<Cmd("GroupMoveAbsolute",
                     <<<<traj_group, traj.axes[i]>>, traj.start[i][1]>>)>>)
         \o StartMoves(traj, i + 1)

\* the channel names of a trajectory: every configured output of every axis
ChannelsOf(traj) ==
    {<<traj_group, traj.axes[i], gather_outputs[k]>> :
        i \in 1..Len(traj.axes), k \in 1..Len(gather_outputs)}

\* the commands of a whole arm_trajectory(name, move_to_start)
ArmCommands(name, move_to_start) ==
    LET traj == trajectories[name]
    IN  (IF move_to_start THEN StartMoves(traj, 1) ELSE <<>>) \o
        <<Cmd("GatheringReset", <<>>),
          Cmd("GatheringConfigurationSet", GatherOutputs(traj.axes)),
          Cmd("MultipleAxesPVTPulseOutputSet",
              <<traj_group, 2, traj.nsegments, traj.pixeltime>>),
          Cmd("MultipleAxesPVTVerification", <<traj_group, <<name, "trj">>>>)>>

\* C31: the commands arm_trajectory has sent are at every moment the first
\* ones of: the moves to the start positions (one per axis that has one),
\* GatheringReset, GatheringConfigurationSet with the outputs of the axes,
\* MultipleAxesPVTPulseOutputSet with the window 2..nsegments and the
\* pixeltime, MultipleAxesPVTVerification; a call that returns has sent them
\* all; and every command is sent while the session is ARMING
C31_ArmOrder ==
    /\ [](/\ (sent # <<>> =>
               /\ IsPrefix(sent, ArmCommands(call.name, call.move_to_start))
               /\ {c \in ChannelsOf(trajectories[call.name]) :
                      InList(c, GatherOutputs(trajectories[call.name].axes))}
                    = ChannelsOf(trajectories[call.name]))
          /\ (outcome.kind = "returned" =>
               sent = ArmCommands(call.name, call.move_to_start)))
    /\ [][sent' # sent => traj_state = ARMING /\ traj_state' \in {ARMING, ARMED}]_vars

\* an armed array trajectory with an axis that has no start position: one
\* move, for the other axis, before the four commands
C31_Witness ==
    /\ outcome.kind = "returned"
    /\ call.name = "array" /\ call.move_to_start
    /\ \E i \in 1..Len(trajectories["array"].start) :
           trajectories["array"].start[i] = NoAttr
    /\ Len(sent) = 5
    /\ sent[1].cmd = "GroupMoveAbsolute"

\* ---- C32 ----

\* the running define_line_trajectories call has sent the forward file and
\* was called with scantime and without pixeltime
ScantimeGiven ==
    /\ pc = "dl_upload_back"
    /\ loc.buff.pixeltime = <<>> /\ loc.buff.scantime # <<>>

\* C32 as the specification states it: with pixeltime unset and scantime
\* given, pixeltime is scantime/(npulses-1) and the scan segment of the
\* trajectory lasts the given scantime.
C32_GivenScantimeKept ==
    ScantimeGiven =>
        LET fore    == sent[Len(sent)].args[2]
            npulses == trajectories["foreward"].npulses - 1
        IN  /\ trajectories["foreward"].pixeltime =
                   FDiv(FAbs(loc.buff.scantime), <<npulses - 1, 1>>)
            /\ fore[<<"", "scantime">>] = FAbs(loc.buff.scantime)

\* what the code does: the scan segment lasts pixeltime*npulses in every
\* call, so with a derived pixeltime scantime*npulses/(npulses-1)
C32_ScantimeRederived ==
    pc = "dl_upload_back" =>
        LET fore    == sent[Len(sent)].args[2]
            npulses == trajectories["foreward"].npulses - 1
            ptime   == trajectories["foreward"].pixeltime
        IN  /\ fore[<<"", "scantime">>] = FMul(ptime, <<npulses, 1>>)
            /\ ScantimeGiven =>
                  /\ ptime = FDiv(FAbs(loc.buff.scantime), <<npulses - 1, 1>>)
                  /\ FLess(FAbs(loc.buff.scantime), fore[<<"", "scantime">>])
            /\ loc.buff.pixeltime # <<>> => ptime = loc.buff.pixeltime

\* ---- C33 ----

Replaced == {";", "\r", "\t"}

\* C33: the text read_gathering returns has the length of the concatenated
\* buffer, a space wherever the buffer has ';', carriage return or tab and
\* the character of the buffer everywhere else, so line feeds stay where
\* they are; cleaning the returned text again changes nothing.
C33_CleanReplacesThree ==
    (call.op = "read_gathering" /\ outcome.kind = "returned") =>
        LET buff  == call.args
            obuff == outcome.val[2]
        IN  /\ Len(obuff) = Len(buff)
            /\ \A i \in 1..Len(buff) :
                  obuff[i] = IF buff[i] \in Replaced THEN " " ELSE buff[i]
            /\ {i \in 1..Len(obuff) : obuff[i] = "\n"} =
               {i \in 1..Len(buff) : buff[i] = "\n"}
            /\ CleanBuffer(obuff) = obuff

\* a buffer with a ';', a line feed and a digit was cleaned
C33_Witness ==
    /\ call.op = "read_gathering" /\ outcome.kind = "returned"
    /\ call.args = <<"7", ";", "\n">>
    /\ outcome.val[2] = <<"7", " ", "\n">>

\* ---- C34 ----

\* run_trajectory has just sent the execution command
Executed == call.op = "run_trajectory" /\ pc = "run_remove"

\* C34 as the specification states it: a run_trajectory(name) with a
\* registered name executes the file of that trajectory, also on a session
\* that was ARMED for another trajectory when it was called.
C34_RunsNamedTrajectory ==
    (Executed /\ call.name \in DOMAIN trajectories) =>
        sent[Len(sent)] = Cmd("MultipleAxesPVTExecution",
                              <<traj_group, <<call.name, "trj">>, 1>>)

\* what the code does: the file executed is the one of the last
\* arm_trajectory, and it is the named one when run_trajectory was called
\* with a registered name on a session that was not ARMED
C34_RunsArmedTrajectory ==
    Executed =>
        /\ sent[Len(sent)] = Cmd("MultipleAxesPVTExecution",
                                 <<traj_group, traj_file, 1>>)
        /\ (call.name \in DOMAIN trajectories /\ call.from # ARMED) =>
              traj_file = <<call.name, "trj">>

\* ---- C35 ----

\* a read_gathering(set_idle_when_done=True) has returned to its caller
ReadReturned ==
    /\ call.op = "read_gathering" /\ call.set_idle_when_done
    /\ pc = "ready" /\ outcome.kind = "returned"

\* C35 as the specification states it: a read_gathering called with
\* set_idle_when_done true leaves the session IDLE on every path by which
\* it returns, the return after the poll timeout included.
C35_ReturnsIdle == ReadReturned => traj_state = IDLE

\* what the code does: the session is IDLE after the return at the end of
\* the method and READING after the return of the poll timeout
C35_IdleAtTheEndOnly ==
    ReadReturned =>
        traj_state = IF outcome.val = PollTimeoutResult THEN READING ELSE IDLE

\* ---- C36 ----

\* read_gathering has returned a text that it read in chunks, the first of
\* which the controller answered without error
ChunkedReturn ==
    /\ call.op = "read_gathering"
    /\ pc = "ready" /\ outcome.kind = "returned"
    /\ hist.first > 0

\* C36 as the specification states it: a text read in chunks is returned
\* only if every chunk read after the first one reported success, so no part
\* of it is the answer of a failed read.
C36_LaterChunksChecked ==
    ChunkedReturn =>
        \A i \in 1..Len(outcome.val[2]) : outcome.val[2][i] # ErrText[1]

\* what the code does: the text returned is that of the rows exactly when no
\* chunk read after the accepted first one failed
C36_LaterChunksUnchecked ==
    ChunkedReturn =>
        ((outcome.val[2] = CleanBuffer(DevRows(0, outcome.val[1])))
            <=> (hist.faults = hist.first - BulkIndex))

\* ---- C37 ----

\* the socket ids marked as used
UsedIds == {s \in SocketIds : xps.usedSockets[s] = 1}

\* C37 as the specification states it: after any connects and closes the
\* socket counter is the number of ids marked as used and lies within
\* 0..MAX_NB_SOCKETS, and no id is left marked by a connection attempt that
\* returned -1.
C37_CounterMatchesUsedIds ==
    /\ xps.nbSockets = Cardinality(UsedIds)
    /\ xps.nbSockets \in 0..MaxSockets
    /\ \A s \in UsedIds : xps.sockets[s] # "unconnected"

\* what the code keeps: the counter never exceeds MAX_NB_SOCKETS and never
\* falls short of the number of ids marked as used by more than the closes
\* of sockets that were closed already
C37_CounterAtMostUsedIds ==
    /\ xps.nbSockets <= Cardinality(UsedIds)
    /\ xps.nbSockets <= MaxSockets

\* ---- C38 ----

\* set_trajectory_group has returned without raising
GroupSet ==
    call.op = "set_trajectory_group" /\ pc = "ready" /\ outcome.kind = "returned"

\* the template has three lines with, after the time, the ramp and velocity,
\* the distance and velocity and the ramp of every positioner of the
\* trajectory group, in the order of traj_positioners
TemplateOfGroup ==
    /\ linear_template # NoAttr
    /\ Len(linear_template) = 3
    /\ \A l \in 1..3 : Len(linear_template[l]) = 1 + 2 * Len(traj_positioners)
    /\ \A i \in 1..Len(traj_positioners) :
          /\ linear_template[1][2 * i] = <<traj_positioners[i], "ramp">>
          /\ linear_template[1][2 * i + 1] = <<traj_positioners[i], "velo">>
          /\ linear_template[2][2 * i] = <<traj_positioners[i], "dist">>
          /\ linear_template[2][2 * i + 1] = <<traj_positioners[i], "velo">>
          /\ linear_template[3][2 * i] = <<traj_positioners[i], "ramp">>

\* the call has sent EventExtendedRemove for every event slot
EventsRemoved ==
    \A i \in 0..(EventSlots - 1) :
        \E k \in 1..Len(sent) :
            sent[k].cmd = "EventExtendedRemove" /\ sent[k].args = <<i>>

\* C38 as the specification states it: whenever set_trajectory_group returns
\* without raising, the template is the one of the positioners of the new
\* trajectory group and the event slots have been removed, also with
\* reenable when enabling the group fails.
C38_TemplateFollowsGroup == GroupSet => (TemplateOfGroup /\ EventsRemoved)

\* what the code does: the same, except in a call that ended with the failed
\* GroupMotionEnable
C38_UnlessEnableFailed ==
    (GroupSet /\ sent[Len(sent)].cmd # "GroupMotionEnable")
        => (TemplateOfGroup /\ EventsRemoved)

\* ---- C39 ----

\* the connect() calls that the guarded call in progress has set off: those
\* of the running call, without the connect() that __init__ calls itself
GuardConnects == conn.connects - (IF call.op = "__init__" THEN 1 ELSE 0)

\* C39 as the specification states it: a call of a guarded method sets off
\* at most one connect() before its body runs, for every system.ini, the
\* one with a single multiple-axes group and no stage section included.
C39_OneConnectPerGuardedCall == GuardConnects <= 1

\* what holds for every system.ini that has a stage section or no single
\* multiple-axes group
C39_OneConnectWithStages ==
    (conn.ini.stages # {} \/ Cardinality(PvtGroups(conn.ini)) # 1)
        => GuardConnects <= 1

\* with the one multiple-axes group and no stage section no body of a
\* guarded method ever runs and no connect() returns: the nested connects
\* go on until TCP_ConnectToServer has no socket id left and Login raises
C39_NoStagesNeverConnects ==
    (conn.ini.stages = {} /\ Cardinality(PvtGroups(conn.ini)) = 1)
        => /\ pc \notin {"stg_check", "stg_events", "rs_stages"}
           /\ pc = "ready" => outcome.kind # "returned"

====
